---- MODULE Spec2Model ----
(***************************************************************************)
(* A model of the BRIC virtual machine (bric_vm): the RAM with its access  *)
(* regions and write callbacks, the register file, the program counter,    *)
(* the instruction interpreter and the image serialization format.         *)
(*                                                                         *)
(* Representation notes.                                                   *)
(*  - A u16 is a natural number in 0 .. 65535; every arithmetic step that  *)
(*    the source performs on a u16 is reduced modulo 2^16 where the source *)
(*    wraps, and is an overflow (panic with overflow checks, wrap without) *)
(*    where the source uses the plain operators.                           *)
(*  - The array [u16; RAM_LEN] is kept as a finite map from the addresses  *)
(*    holding a non-zero word to that word; an address outside the domain  *)
(*    holds 0.  ram_get / ram_put are the indexing operations on it.       *)
(*  - A write callback is an opaque closure; the model names it and lets   *)
(*    its invocation append to a log kept outside the machine (env).       *)
(***************************************************************************)
EXTENDS Integers, Sequences, FiniteSets, TLC

VARIABLES
    overflow_checks,  \* build profile: TRUE = overflow checks on (debug), FALSE = off (release)
    vm,               \* the Vm under test: [pc, rom, mem]
    env,              \* state outside the machine that callbacks act on, and the log of checked writes
    last,             \* the last operation: its name, arguments, the state before it and its result
    munit,            \* a MemoryUnit built directly by MemoryUnit::new
    mlast,            \* the last operation on munit
    image,            \* a VmDescription to be serialized
    ser,              \* results of serialize / deserialize / serialize again
    dbg,              \* a Debugger: [vm, breakpoints, halted, uart, current_uart_out]
    dlast,            \* the last operation on dbg
    uart,             \* a Uart used on its own
    ulast,            \* the last operation on uart
    rmap              \* a region list, the RegionMap built from it and a lookup in it

vars == <<overflow_checks, vm, env, last, munit, mlast, image, ser, dbg, dlast, uart, ulast, rmap>>

----------------------------------------------------------------------------
(* Words and bits *)

RAM_LEN == 65536
BIT_15 == 32768
U16 == 2 ^ 16

Pow2(n) == 2 ^ n

\* bit i of x
Bit(x, i) == (x \div Pow2(i)) % 2

AndTbl == <<<<0, 0>>, <<0, 1>>>>
OrTbl  == <<<<0, 1>>, <<1, 1>>>>
XorTbl == <<<<0, 1>>, <<1, 0>>>>

RECURSIVE bitwise(_, _, _, _)
\* the bitwise operators & | ^ of the source on n-bit operands
bitwise(tbl, x, y, n) ==
    IF n = 0 THEN 0
    ELSE tbl[(x % 2) + 1][(y % 2) + 1] + 2 * bitwise(tbl, x \div 2, y \div 2, n - 1)

bit_and(x, y) == bitwise(AndTbl, x, y, 16)
bit_or(x, y)  == bitwise(OrTbl, x, y, 16)
bit_xor(x, y) == bitwise(XorTbl, x, y, 16)
bit_not(x)    == 65535 - x

wrapping_add(x, y) == (x + y) % U16
wrapping_sub(x, y) == (x - y + U16) % U16
wrapping_shl1(x)   == (x * 2) % U16
wrapping_shr1(x)   == x \div 2
rotate_left1(x)    == ((x * 2) % U16) + (x \div BIT_15)
rotate_right1(x)   == (x \div 2) + (x % 2) * BIT_15

\* output as i16
as_i16(x) == IF x >= BIT_15 THEN x - U16 ELSE x

----------------------------------------------------------------------------
(* Results *)

Ok == [kind |-> "Ok", value |-> 0]
Err(k, v) == [kind |-> k, value |-> v]
Panic == [kind |-> "panic", value |-> 0]

Some(v) == [some |-> TRUE, v |-> v]
None == [some |-> FALSE, v |-> 0]

----------------------------------------------------------------------------
(* util.rs: Region and RegionMap *)

Region(start, end, label) == [start |-> start, end |-> end, label |-> label]

RECURSIVE insert_sorted(_, _)
\* insert r after every element whose start is <= r.start (stable)
insert_sorted(s, r) ==
    IF s = <<>> THEN <<r>>
    ELSE IF r.start < s[1].start THEN <<r>> \o s
    ELSE <<s[1]>> \o insert_sorted(Tail(s), r)

RECURSIVE sort_by_start(_)
\* value.sort_by(|a, b| a.start.cmp(&b.start)): a stable sort
sort_by_start(s) ==
    IF s = <<>> THEN <<>>
    ELSE insert_sorted(sort_by_start(SubSeq(s, 1, Len(s) - 1)), s[Len(s)])

\* try_from that lets a region start where the one before it ends
region_map_try_from_allows_touching(value) ==
    IF \E i \in 1..Len(value) : value[i].start > value[i].end
    THEN [ok |-> FALSE, err |-> "MapError", regions |-> <<>>]
    ELSE LET sorted == sort_by_start(value)
         IN  IF \E i \in 2..Len(sorted) : sorted[i].start < sorted[i - 1].end
             THEN [ok |-> FALSE, err |-> "MapError", regions |-> <<>>]
             ELSE [ok |-> TRUE, err |-> "", regions |-> sorted]

\* RegionMap::try_from
region_map_try_from(value) ==
    IF \E i \in 1..Len(value) : value[i].start > value[i].end
    THEN [ok |-> FALSE, err |-> "MapError", regions |-> <<>>]
    ELSE LET sorted == sort_by_start(value)
         IN  IF \E i \in 2..Len(sorted) : sorted[i].start <= sorted[i - 1].end
             THEN [ok |-> FALSE, err |-> "MapError", regions |-> <<>>]
             ELSE [ok |-> TRUE, err |-> "", regions |-> sorted]

RECURSIVE bisect(_, _, _, _)
\* the loop of find_region; indices are 0-based as in the source
bisect(regions, position, low, high) ==
    IF low < high
    THEN LET mid == (low + high) \div 2
             region == regions[mid + 1]
         IN  IF position < region.start THEN bisect(regions, position, low, mid)
             ELSE IF position > region.end THEN bisect(regions, position, mid + 1, high)
             ELSE Some(region.label)
    ELSE None

\* RegionMap::find_region
find_region(regions, position) == bisect(regions, position, 0, Len(regions))

----------------------------------------------------------------------------
(* vm.rs: Ram *)

\* self.ram[address]
ram_get(ram, address) == IF address \in DOMAIN ram THEN ram[address] ELSE 0

\* self.ram[address] = value
ram_put(ram, address, value) ==
    IF value = 0
    THEN [x \in (DOMAIN ram) \ {address} |-> ram[x]]
    ELSE [x \in (DOMAIN ram) \cup {address} |-> IF x = address THEN value ELSE ram[x]]

EmptyRam == [x \in {} |-> 0]

\* Ram::new
ram_new(ram, memory_regions) ==
    [ram |-> ram, write_callbacks |-> [x \in {} |-> ""], memory_regions |-> memory_regions]

\* the access level that read_ram and write_ram match on
access_level(r, position) ==
    LET fr == find_region(r.memory_regions, position)
    IN  IF fr.some THEN fr.v ELSE "ReadWrite"

\* read_ram that returns 0 for every level but ReadWrite
read_ram_hides_read(r, position) ==
    IF access_level(r, position) # "ReadWrite" THEN 0 ELSE ram_get(r.ram, position)

\* Ram::read_ram
read_ram(r, position) ==
    IF access_level(r, position) = "None" THEN 0 ELSE ram_get(r.ram, position)

\* Ram::set_ram
set_ram(r, address, value) == [r EXCEPT !.ram = ram_put(r.ram, address, value)]

\* a callback closure is run with the written value: it records the call, and
\* (for the record only) the word the RAM holds at that moment
run_callback(ev, cb, position, value, r) ==
    [ev EXCEPT !.log = Append(@, [cb |-> cb, value |-> value,
                                  stored |-> ram_get(r.ram, position)])]

\* write_ram that, like read_ram, singles out only the None level
write_ram_drops_none_only(r, ev, position, value) ==
    LET ev1 == [ev EXCEPT !.writes = Append(@, [position |-> position, value |-> value])]
    IN  IF access_level(r, position) # "None"
        THEN LET r1 == set_ram(r, position, value)
             IN  IF position \in DOMAIN r.write_callbacks
                 THEN [ram |-> r1,
                       env |-> run_callback(ev1, r.write_callbacks[position], position, value, r1)]
                 ELSE [ram |-> r1, env |-> ev1]
        ELSE [ram |-> r, env |-> ev1]

\* write_ram that runs the callback whether or not the write was allowed
write_ram_always_calls_back(r, ev, position, value) ==
    LET ev1 == [ev EXCEPT !.writes = Append(@, [position |-> position, value |-> value])]
        r1 == IF access_level(r, position) = "ReadWrite" THEN set_ram(r, position, value) ELSE r
    IN  IF position \in DOMAIN r.write_callbacks
        THEN [ram |-> r1,
              env |-> run_callback(ev1, r.write_callbacks[position], position, value, r1)]
        ELSE [ram |-> r1, env |-> ev1]

\* Ram::write_ram; returns the new Ram and the new outside state
write_ram(r, ev, position, value) ==
    LET ev1 == [ev EXCEPT !.writes = Append(@, [position |-> position, value |-> value])]
    IN  IF access_level(r, position) = "ReadWrite"
        THEN LET r1 == set_ram(r, position, value)
             IN  IF position \in DOMAIN r.write_callbacks
                 THEN [ram |-> r1,
                       env |-> run_callback(ev1, r.write_callbacks[position], position, value, r1)]
                 ELSE [ram |-> r1, env |-> ev1]
        ELSE [ram |-> r, env |-> ev1]

\* Ram::register_callback
register_callback(r, address, cb) ==
    [r EXCEPT !.write_callbacks =
        [x \in (DOMAIN @) \cup {address} |-> IF x = address THEN cb ELSE @[x]]]

\* Ram::set_ram_region
set_ram_region(r, address, values) ==
    IF address + Len(values) > RAM_LEN
    THEN [ret |-> Err("OutOfBoundsError", address), ram |-> r]
    ELSE [ret |-> Ok,
          ram |-> [r EXCEPT !.ram =
                     LET idx == {address + i - 1 : i \in 1..Len(values)}
                         put == {x \in idx : values[x - address + 1] # 0}
                     IN  [x \in ((DOMAIN @) \ idx) \cup put |->
                             IF x \in idx THEN values[x - address + 1] ELSE @[x]]]]

\* Ram::get_ram_region
get_ram_region(r, address, length) ==
    LET start0 == address
        end0 == start0 + length
        end == IF end0 > RAM_LEN THEN RAM_LEN ELSE end0
        start == IF start0 > end THEN end ELSE start0
    IN  [i \in 1..(end - start) |-> ram_get(r.ram, start + i - 1)]

----------------------------------------------------------------------------
(* vm.rs: Register and MemoryUnit *)

R_None == 0
R_A == 1
R_MA == 2
R_D == 3
R_E == 4
R_F == 5
R_G == 6
R_H == 7

\* Register::try_from(u8)
register_try_from(code) ==
    IF code \in 0..7 THEN [ok |-> TRUE, reg |-> code] ELSE [ok |-> FALSE, reg |-> 0]

\* MemoryUnit::get_reg
get_reg(m, reg) ==
    CASE reg = R_None -> 0
      [] reg = R_A -> m.a
      [] reg = R_MA -> read_ram(m.ram, m.a)
      [] reg = R_D -> m.d
      [] reg = R_E -> m.e
      [] reg = R_F -> m.f
      [] reg = R_G -> m.g
      [] reg = R_H -> m.h

\* set_reg whose *A arm stores without the access check
set_reg_raw_store(m, ev, reg, value) ==
    CASE reg = R_None -> [mem |-> m, env |-> ev]
      [] reg = R_A -> [mem |-> [m EXCEPT !.a = value], env |-> ev]
      [] reg = R_MA -> [mem |-> [m EXCEPT !.ram = set_ram(m.ram, m.a, value)], env |-> ev]
      [] reg = R_D -> [mem |-> [m EXCEPT !.d = value], env |-> ev]
      [] reg = R_E -> [mem |-> [m EXCEPT !.e = value], env |-> ev]
      [] reg = R_F -> [mem |-> [m EXCEPT !.f = value], env |-> ev]
      [] reg = R_G -> [mem |-> [m EXCEPT !.g = value], env |-> ev]
      [] reg = R_H -> [mem |-> [m EXCEPT !.h = value], env |-> ev]

\* MemoryUnit::set_reg; returns the new MemoryUnit and the new outside state
set_reg(m, ev, reg, value) ==
    CASE reg = R_None -> [mem |-> m, env |-> ev]
      [] reg = R_A -> [mem |-> [m EXCEPT !.a = value], env |-> ev]
      [] reg = R_MA -> LET w == write_ram(m.ram, ev, m.a, value)
                       IN  [mem |-> [m EXCEPT !.ram = w.ram], env |-> w.env]
      [] reg = R_D -> [mem |-> [m EXCEPT !.d = value], env |-> ev]
      [] reg = R_E -> [mem |-> [m EXCEPT !.e = value], env |-> ev]
      [] reg = R_F -> [mem |-> [m EXCEPT !.f = value], env |-> ev]
      [] reg = R_G -> [mem |-> [m EXCEPT !.g = value], env |-> ev]
      [] reg = R_H -> [mem |-> [m EXCEPT !.h = value], env |-> ev]

\* MemoryUnit::new
memory_unit_new(a0, d0, e0, f0, g0, h0, ram, regions) ==
    LET rm == region_map_try_from(regions)
    IN  IF rm.ok
        THEN [ok |-> TRUE, err |-> "",
              mem |-> [a |-> a0, d |-> d0, e |-> e0, f |-> f0, g |-> g0, h |-> h0,
                       ram |-> ram_new(ram, rm.regions)]]
        ELSE [ok |-> FALSE, err |-> rm.err,
              mem |-> [a |-> 0, d |-> 0, e |-> 0, f |-> 0, g |-> 0, h |-> 0,
                       ram |-> ram_new(EmptyRam, <<>>)]]

\* MemoryUnit::get_regs
get_regs(m) == <<m.a, m.d, m.e, m.f, m.g, m.h>>

----------------------------------------------------------------------------
(* vm.rs: Rom, Pc, AluInstruction, Instruction *)

\* get_address with the bound test off by one
get_address_off_by_one(program_text, address) ==
    IF address < Len(program_text) THEN Some(program_text[address + 1])
    ELSE IF address = Len(program_text) THEN Some(0)
    ELSE None

\* get_address that takes a zero word for the end of the program
get_address_stops_at_zero(program_text, address) ==
    IF address < Len(program_text) /\ program_text[address + 1] # 0
    THEN Some(program_text[address + 1])
    ELSE None

\* Rom::get_address
get_address(program_text, address) ==
    IF address < Len(program_text) THEN Some(program_text[address + 1]) ELSE None

\* Pc::inc on a counter that does not wrap
pc_inc_unwrapped(val) == val + 1

\* Pc::inc on a Wrapping<u16>
pc_inc(val) == (val + 1) % U16

\* the getters of the AluInstruction bitfield
get_gt(w) == Bit(w, 0) = 1
get_eq(w) == Bit(w, 1) = 1
get_lt(w) == Bit(w, 2) = 1
get_target(w) == (w \div 8) % 8
get_zx(w) == Bit(w, 6) = 1
get_sw(w) == Bit(w, 7) = 1
get_op(w) == (w \div 256) % 8
get_u(w) == Bit(w, 11) = 1
get_source(w) == (w \div 4096) % 8

\* from_u16 that keeps bit 15 in the Data payload
from_u16_unmasked(inst) ==
    IF inst \div BIT_15 = 0
    THEN [variant |-> "Alu", v |-> inst]
    ELSE [variant |-> "Data", v |-> inst]

\* Instruction::from_u16
from_u16(inst) ==
    IF inst \div BIT_15 = 0
    THEN [variant |-> "Alu", v |-> inst]
    ELSE [variant |-> "Data", v |-> inst % BIT_15]

\* Instruction::to_u16
to_u16(i) ==
    IF i.variant = "Alu" THEN i.v ELSE (i.v % BIT_15) + BIT_15

----------------------------------------------------------------------------
(* vm.rs: Vm *)

\* the match on (u, op) with asr shifting right and rol / ror exchanged
alu_output_shifts_wrong(w, x, y) ==
    IF get_u(w)
    THEN CASE get_op(w) = 0 -> Some(wrapping_add(x, y))
           [] get_op(w) = 1 -> Some(wrapping_sub(x, y))
           [] get_op(w) = 2 -> Some(wrapping_add(x, 1))
           [] get_op(w) = 3 -> Some(wrapping_sub(x, 1))
           [] get_op(w) = 4 -> Some(bit_or(bit_and(x, BIT_15), wrapping_shr1(x)))
           [] OTHER -> None
    ELSE CASE get_op(w) = 0 -> Some(bit_and(x, y))
           [] get_op(w) = 1 -> Some(bit_or(x, y))
           [] get_op(w) = 2 -> Some(bit_xor(x, y))
           [] get_op(w) = 3 -> Some(bit_not(x))
           [] get_op(w) = 4 -> Some(wrapping_shl1(x))
           [] get_op(w) = 5 -> Some(wrapping_shr1(x))
           [] get_op(w) = 6 -> Some(rotate_right1(x))
           [] get_op(w) = 7 -> Some(rotate_left1(x))
           [] OTHER -> None

\* the match on (u, op) with the arithmetic arm falling through to the logic
\* table for op above 100
alu_output_falls_through(w, x, y) ==
    IF get_u(w) /\ get_op(w) <= 4
    THEN CASE get_op(w) = 0 -> Some(wrapping_add(x, y))
           [] get_op(w) = 1 -> Some(wrapping_sub(x, y))
           [] get_op(w) = 2 -> Some(wrapping_add(x, 1))
           [] get_op(w) = 3 -> Some(wrapping_sub(x, 1))
           [] get_op(w) = 4 -> Some(bit_or(bit_and(x, BIT_15), wrapping_shl1(x)))
           [] OTHER -> None
    ELSE CASE get_op(w) = 0 -> Some(bit_and(x, y))
           [] get_op(w) = 1 -> Some(bit_or(x, y))
           [] get_op(w) = 2 -> Some(bit_xor(x, y))
           [] get_op(w) = 3 -> Some(bit_not(x))
           [] get_op(w) = 4 -> Some(wrapping_shl1(x))
           [] get_op(w) = 5 -> Some(wrapping_shr1(x))
           [] get_op(w) = 6 -> Some(rotate_left1(x))
           [] get_op(w) = 7 -> Some(rotate_right1(x))
           [] OTHER -> None

\* the match on (u, op) in interpret_instruction
alu_output(w, x, y) ==
    IF get_u(w)
    THEN CASE get_op(w) = 0 -> Some(wrapping_add(x, y))
           [] get_op(w) = 1 -> Some(wrapping_sub(x, y))
           [] get_op(w) = 2 -> Some(wrapping_add(x, 1))
           [] get_op(w) = 3 -> Some(wrapping_sub(x, 1))
           [] get_op(w) = 4 -> Some(bit_or(bit_and(x, BIT_15), wrapping_shl1(x)))
           [] OTHER -> None
    ELSE CASE get_op(w) = 0 -> Some(bit_and(x, y))
           [] get_op(w) = 1 -> Some(bit_or(x, y))
           [] get_op(w) = 2 -> Some(bit_xor(x, y))
           [] get_op(w) = 3 -> Some(bit_not(x))
           [] get_op(w) = 4 -> Some(wrapping_shl1(x))
           [] get_op(w) = 5 -> Some(wrapping_shr1(x))
           [] get_op(w) = 6 -> Some(rotate_left1(x))
           [] get_op(w) = 7 -> Some(rotate_right1(x))
           [] OTHER -> None

\* the jump test with the flags taken from the unsigned output
jump_taken_unsigned(w, output) ==
    LET lt == output < 0
        gt == output > 0
        eq == output = 0
    IN  (lt /\ get_lt(w)) \/ (gt /\ get_gt(w)) \/ (eq /\ get_eq(w))

\* the jump test of interpret_instruction
jump_taken(w, output) ==
    LET ioutput == as_i16(output)
        lt == ioutput < 0
        gt == ioutput > 0
        eq == output = 0
    IN  (lt /\ get_lt(w)) \/ (gt /\ get_gt(w)) \/ (eq /\ get_eq(w))

\* what an interpreted instruction reports besides the new state: whether it
\* was an ALU instruction, the ALU output and whether the jump was applied
Trace(alu, output, taken) == [alu |-> alu, output |-> output, taken |-> taken]
NoTrace == Trace(FALSE, 0, FALSE)

\* interpret_instruction that reads x from its register even when zx is set
interpret_instruction_ignores_zx(v, ev, instruction, oc) ==
    LET i == from_u16(instruction)
    IN  IF i.variant = "Data"
        THEN [vm |-> [v EXCEPT !.mem.a = i.v], env |-> ev, ret |-> Ok, trace |-> NoTrace]
        ELSE
        LET w == i.v
            source == register_try_from(get_source(w))
            target == register_try_from(get_target(w))
            xr == IF get_sw(w) THEN R_A ELSE source.reg
            yr == IF get_sw(w) THEN source.reg ELSE R_A
            x == get_reg(v.mem, xr)
            y == get_reg(v.mem, yr)
            out == alu_output(w, x, y)
            output == out.v
            taken == jump_taken(w, output)
            v1 == IF taken THEN [v EXCEPT !.pc = wrapping_sub(v.mem.a, 1)] ELSE v
            sr == set_reg(v1.mem, ev, target.reg, output)
        IN  IF ~source.ok \/ ~target.ok
            THEN [vm |-> v, env |-> ev, ret |-> Err("InstParseError", w), trace |-> NoTrace]
            ELSE IF ~out.some
            THEN [vm |-> v, env |-> ev, ret |-> Err("InvalidInstructionError", instruction),
                  trace |-> NoTrace]
            ELSE IF taken /\ v.mem.a = 0 /\ oc
            THEN \* self.mem.a - 1 overflows: the thread panics before anything is stored
                 [vm |-> v, env |-> ev, ret |-> Panic, trace |-> Trace(TRUE, output, TRUE)]
            ELSE [vm |-> [v1 EXCEPT !.mem = sr.mem], env |-> sr.env, ret |-> Ok,
                  trace |-> Trace(TRUE, output, taken)]

\* Vm::interpret_instruction; oc = overflow checks of the build
interpret_instruction(v, ev, instruction, oc) ==
    LET i == from_u16(instruction)
    IN  IF i.variant = "Data"
        THEN [vm |-> [v EXCEPT !.mem.a = i.v], env |-> ev, ret |-> Ok, trace |-> NoTrace]
        ELSE
        LET w == i.v
            source == register_try_from(get_source(w))
            target == register_try_from(get_target(w))
            xr == IF get_sw(w) THEN R_A ELSE source.reg
            yr == IF get_sw(w) THEN source.reg ELSE R_A
            x == IF get_zx(w) THEN 0 ELSE get_reg(v.mem, xr)
            y == get_reg(v.mem, yr)
            out == alu_output(w, x, y)
            output == out.v
            taken == jump_taken(w, output)
            v1 == IF taken THEN [v EXCEPT !.pc = wrapping_sub(v.mem.a, 1)] ELSE v
            sr == set_reg(v1.mem, ev, target.reg, output)
        IN  IF ~source.ok \/ ~target.ok
            THEN [vm |-> v, env |-> ev, ret |-> Err("InstParseError", w), trace |-> NoTrace]
            ELSE IF ~out.some
            THEN [vm |-> v, env |-> ev, ret |-> Err("InvalidInstructionError", instruction),
                  trace |-> NoTrace]
            ELSE IF taken /\ v.mem.a = 0 /\ oc
            THEN \* self.mem.a - 1 overflows: the thread panics before anything is stored
                 [vm |-> v, env |-> ev, ret |-> Panic, trace |-> Trace(TRUE, output, TRUE)]
            ELSE [vm |-> [v1 EXCEPT !.mem = sr.mem], env |-> sr.env, ret |-> Ok,
                  trace |-> Trace(TRUE, output, taken)]

\* Vm::cycle
cycle(v, ev, oc) ==
    LET pcval == v.pc
        inst == get_address(v.rom, pcval)
        r == interpret_instruction(v, ev, inst.v, oc)
    IN  IF ~inst.some
        THEN [vm |-> v, env |-> ev, ret |-> Err("ExecutionHaltedError", pcval),
              trace |-> NoTrace, inst |-> None]
        ELSE IF r.ret.kind # "Ok"
        THEN [vm |-> r.vm, env |-> r.env, ret |-> r.ret, trace |-> r.trace, inst |-> inst]
        ELSE [vm |-> [r.vm EXCEPT !.pc = pc_inc(r.vm.pc)], env |-> r.env, ret |-> Ok,
              trace |-> r.trace, inst |-> inst]

\* the copy taking its words from the start of the ROM
copy_span_from_rom_start(ram, rom, sl, length, ad) ==
    LET span == {ad + i : i \in 0..(length - 1)}
        put == {x \in span : rom[x - ad + 1] # 0}
    IN  [x \in ((DOMAIN ram) \ span) \cup put |->
            IF x \in span THEN rom[x - ad + 1] ELSE ram[x]]

\* the region of RAM that a span of ROM is copied over
copy_span(ram, rom, sl, length, ad) ==
    LET span == {ad + i : i \in 0..(length - 1)}
        put == {x \in span : rom[x - ad + sl + 1] # 0}
    IN  [x \in ((DOMAIN ram) \ span) \cup put |->
            IF x \in span THEN rom[x - ad + sl + 1] ELSE ram[x]]

BadVm == [pc |-> 0, rom |-> <<>>, mem |-> memory_unit_new(0, 0, 0, 0, 0, 0, EmptyRam, <<>>).mem]

RECURSIVE map_rom(_, _, _, _, _)
\* the loop over description.rom_mappings in Vm::new
map_rom(mappings, rom, ram, regions, oc) ==
    IF mappings = <<>> THEN [ret |-> Ok, ram |-> ram, regions |-> regions]
    ELSE LET source_low == mappings[1][1]
             length == mappings[1][2]
             addr == mappings[1][3]
         IN  IF addr + length > RAM_LEN
             THEN [ret |-> Err("OutOfBoundsError", addr), ram |-> ram, regions |-> regions]
             ELSE IF \E i \in 0..(length - 1) : i + source_low >= Len(rom)
             THEN [ret |-> Err("MapError", source_low), ram |-> ram, regions |-> regions]
             ELSE IF addr + length >= U16 /\ oc
             THEN \* addr + length overflows u16
                  [ret |-> Panic, ram |-> ram, regions |-> regions]
             ELSE map_rom(Tail(mappings), rom,
                          copy_span(ram, rom, source_low, length, addr),
                          Append(regions, Region(addr, (addr + length) % U16, "Read")), oc)

RECURSIVE block_rom(_, _)
\* the loop over description.rom_blocks in Vm::new
block_rom(rom_blocks, regions) ==
    IF rom_blocks = <<>> THEN [ret |-> Ok, regions |-> regions]
    ELSE LET addr == rom_blocks[1][1]
             length == rom_blocks[1][2]
             start == addr
             end == start + length
         IN  IF start > RAM_LEN \/ end > RAM_LEN
             THEN [ret |-> Err("OutOfBoundsError", addr), regions |-> regions]
             ELSE block_rom(Tail(rom_blocks),
                            Append(regions, Region(start % U16, end % U16, "Read")))

RECURSIVE register_all(_, _)
\* the loop over description.callbacks in Vm::new
register_all(r, callbacks) ==
    IF callbacks = <<>> THEN r
    ELSE register_all(register_callback(r, callbacks[1][1], callbacks[1][2]), Tail(callbacks))

\* Vm::new
vm_new(description, oc) ==
    LET mapped == map_rom(description.rom_mappings, description.rom, description.mem, <<>>, oc)
        blocked == block_rom(description.rom_blocks, mapped.regions)
        regs == description.regs
        mu == memory_unit_new(regs[1], regs[2], regs[3], regs[4], regs[5], regs[6],
                              mapped.ram, blocked.regions)
    IN  IF mapped.ret.kind # "Ok" THEN [ret |-> mapped.ret, vm |-> BadVm]
        ELSE IF blocked.ret.kind # "Ok" THEN [ret |-> blocked.ret, vm |-> BadVm]
        ELSE IF ~mu.ok THEN [ret |-> Err(mu.err, 0), vm |-> BadVm]
        ELSE [ret |-> Ok,
              vm |-> [pc |-> description.pc, rom |-> description.rom,
                      mem |-> [mu.mem EXCEPT !.ram = register_all(@, description.callbacks)]]]

\* Vm::set_ram
vm_set_ram(v, address, value) == [v EXCEPT !.mem.ram = set_ram(@, address, value)]

\* Vm::set_reg
vm_set_reg(v, ev, reg, val) ==
    LET sr == set_reg(v.mem, ev, reg, val)
    IN  [vm |-> [v EXCEPT !.mem = sr.mem], env |-> sr.env]

\* Vm::get_reg
vm_get_reg(v, reg) == get_reg(v.mem, reg)

\* Vm::set_pc
vm_set_pc(v, new) == [v EXCEPT !.pc = new]

\* to_vm_desc that hands out a zeroed RAM instead of the VM's
to_vm_desc_fresh_ram(v) ==
    [pc |-> v.pc, rom |-> v.rom, mem |-> EmptyRam, callbacks |-> <<>>,
     rom_mappings |-> <<>>, regs |-> get_regs(v.mem), rom_blocks |-> <<>>]

\* Vm::to_vm_desc
to_vm_desc(v) ==
    [pc |-> v.pc, rom |-> v.rom, mem |-> v.mem.ram.ram, callbacks |-> <<>>,
     rom_mappings |-> <<>>, regs |-> get_regs(v.mem), rom_blocks |-> <<>>]

\* VmDescription::default
default_description ==
    [pc |-> 0, rom |-> <<>>, mem |-> EmptyRam, callbacks |-> <<>>,
     rom_mappings |-> <<>>, regs |-> <<0, 0, 0, 0, 0, 0>>, rom_blocks |-> <<>>]

----------------------------------------------------------------------------
(* vm.rs: VmDescription::serialize and VmDescription::deserialize; a byte    *)
(* string is a sequence of numbers in 0 .. 255.  util.rs: check_slice and    *)
(* extract_number.                                                           *)

\* u16::to_be_bytes
to_be_bytes(v) == <<v \div 256, v % 256>>

\* u16::from_be_bytes
from_be_bytes(hi, lo) == hi * 256 + lo

\* b"BVM\x00"
bvm_magic == <<66, 86, 77, 0>>
\* b"RMP\x00"
rmp_magic == <<82, 77, 80, 0>>
\* the ROM magic written without its leading NUL
rom_magic_without_nul == <<82, 79, 77, 0>>
\* b"\x00ROM\x00" as serialize writes it
rom_magic_out == <<0, 82, 79, 77, 0>>
\* b"ROM\x00" as deserialize expects it
rom_magic_in == <<82, 79, 77, 0>>
\* b"\x00RAM\x00" as serialize writes it
ram_magic_out == <<0, 82, 65, 77, 0>>
\* b"RAM\x00" as deserialize expects it
ram_magic_in == <<82, 65, 77, 0>>

\* the bytes of a sequence of words, each big-endian
words_to_bytes(ws) ==
    [i \in 1..(2 * Len(ws)) |->
        IF i % 2 = 1 THEN ws[(i + 1) \div 2] \div 256 ELSE ws[i \div 2] % 256]

\* the bytes of the RAM array, each word big-endian
mem_to_bytes(mem) ==
    [i \in 1..(2 * RAM_LEN) |->
        IF i % 2 = 1 THEN ram_get(mem, (i - 1) \div 2) \div 256
        ELSE ram_get(mem, (i - 1) \div 2) % 256]

\* the bytes of the mappings: rom_addr, length, ram_addr and a NUL each
mappings_to_bytes(maps) ==
    [i \in 1..(7 * Len(maps)) |->
        LET m == maps[((i - 1) \div 7) + 1]
            k == (i - 1) % 7
        IN  CASE k = 0 -> m[1] \div 256 [] k = 1 -> m[1] % 256
              [] k = 2 -> m[2] \div 256 [] k = 3 -> m[2] % 256
              [] k = 4 -> m[3] \div 256 [] k = 5 -> m[3] % 256
              [] k = 6 -> 0]

SerErr(e) == [ok |-> FALSE, err |-> e, bytes |-> <<>>]

\* VmDescription::serialize
serialize(desc) ==
    LET map_no == Len(desc.rom_mappings)
        rom_len == Len(desc.rom)
    IN  IF map_no > 65535 THEN SerErr("SerializationError")
        ELSE IF rom_len > 65535 THEN SerErr("SerializationError")
        ELSE [ok |-> TRUE, err |-> "",
              bytes |-> bvm_magic \o to_be_bytes(desc.pc) \o <<0>>
                        \o words_to_bytes(desc.regs) \o <<0>>
                        \o rmp_magic \o to_be_bytes(map_no) \o <<0>>
                        \o mappings_to_bytes(desc.rom_mappings)
                        \o rom_magic_out \o to_be_bytes(rom_len) \o <<0>>
                        \o words_to_bytes(desc.rom)
                        \o ram_magic_out \o mem_to_bytes(desc.mem)]

\* &current[n..]
skip(current, n) == SubSeq(current, n + 1, Len(current))

\* util::check_slice
check_slice(input, len) ==
    IF len > Len(input) THEN [ok |-> FALSE, err |-> "SerializationError", v |-> <<>>]
    ELSE [ok |-> TRUE, err |-> "", v |-> SubSeq(input, 1, len)]

\* util::extract_number
extract_number(slice) ==
    IF slice[3] # 0 THEN [ok |-> FALSE, err |-> "SerializationError", v |-> 0]
    ELSE [ok |-> TRUE, err |-> "", v |-> from_be_bytes(slice[1], slice[2])]

DeErr(e) == [ok |-> FALSE, err |-> e, desc |-> default_description]

\* the RAM section of deserialize
deserialize_ram(current, pc, regs, mappings, rom) ==
    LET magic == check_slice(current, 4)
        body == skip(current, 4)
        word(i) == from_be_bytes(body[2 * i + 1], body[2 * i + 2])
    IN  IF ~magic.ok THEN DeErr(magic.err)
        ELSE IF magic.v # ram_magic_in THEN DeErr("DeserializationError")
        ELSE IF Len(body) # RAM_LEN * 2 THEN DeErr("DeserializationError")
        ELSE [ok |-> TRUE, err |-> "",
              desc |-> [pc |-> pc, rom |-> rom,
                        mem |-> [x \in {i \in 0..(RAM_LEN - 1) : word(i) # 0} |-> word(x)],
                        callbacks |-> <<>>, rom_mappings |-> mappings, regs |-> regs,
                        rom_blocks |-> <<>>]]

\* the ROM section of deserialize
deserialize_rom(current, pc, regs, mappings) ==
    LET magic == check_slice(current, 4)
        c1 == skip(current, 4)
        ra_nums == check_slice(c1, 3)
        rom_amnt == extract_number(ra_nums.v)
        c2 == skip(c1, 3)
        romlen == 2 * rom_amnt.v + 1
        rom_region == check_slice(c2, romlen)
        rom == [i \in 1..rom_amnt.v |->
                   from_be_bytes(rom_region.v[2 * i - 1], rom_region.v[2 * i])]
    IN  IF ~magic.ok THEN DeErr(magic.err)
        ELSE IF magic.v # rom_magic_in THEN DeErr("DeserializationError")
        ELSE IF ~ra_nums.ok THEN DeErr(ra_nums.err)
        ELSE IF ~rom_amnt.ok THEN DeErr(rom_amnt.err)
        ELSE IF ~rom_region.ok THEN DeErr(rom_region.err)
        ELSE IF rom_region.v[romlen] # 0 THEN DeErr("DeserializationError")
        ELSE deserialize_ram(skip(c2, romlen), pc, regs, mappings, rom)

\* the ROM mappings section of deserialize
deserialize_mappings(current, pc, regs) ==
    LET magic == check_slice(current, 4)
        c1 == skip(current, 4)
        rma_nums == check_slice(c1, 3)
        rom_map_amnt == extract_number(rma_nums.v)
        c2 == skip(c1, 3)
        rrlen == rom_map_amnt.v * 7 + 1
        rom_map_region == check_slice(c2, rrlen)
        reg == rom_map_region.v
        mappings == [i \in 1..rom_map_amnt.v |->
                        LET j == 7 * (i - 1)
                        IN  << from_be_bytes(reg[j + 1], reg[j + 2]),
                               from_be_bytes(reg[j + 3], reg[j + 4]),
                               from_be_bytes(reg[j + 5], reg[j + 6]) >>]
    IN  IF ~magic.ok THEN DeErr(magic.err)
        ELSE IF magic.v # rmp_magic THEN DeErr("DeserializationError")
        ELSE IF ~rma_nums.ok THEN DeErr(rma_nums.err)
        ELSE IF ~rom_map_amnt.ok THEN DeErr(rom_map_amnt.err)
        ELSE IF ~rom_map_region.ok THEN DeErr(rom_map_region.err)
        ELSE IF reg[rrlen] # 0 THEN DeErr("DeserializationError")
        ELSE IF \E i \in 1..rom_map_amnt.v : reg[7 * (i - 1) + 7] # 0
        THEN DeErr("DeserializationError")
        ELSE deserialize_rom(skip(c2, rrlen), pc, regs, mappings)

\* VmDescription::deserialize
deserialize(input) ==
    LET magic == check_slice(input, 4)
        c1 == skip(input, 4)
        pc_nums == check_slice(c1, 3)
        pc == extract_number(pc_nums.v)
        c2 == skip(c1, 3)
        reg_num == check_slice(c2, 13)
        regs == [i \in 1..6 |-> from_be_bytes(reg_num.v[2 * i - 1], reg_num.v[2 * i])]
    IN  IF ~magic.ok THEN DeErr(magic.err)
        ELSE IF magic.v # bvm_magic THEN DeErr("DeserializationError")
        ELSE IF ~pc_nums.ok THEN DeErr(pc_nums.err)
        ELSE IF ~pc.ok THEN DeErr(pc.err)
        ELSE IF ~reg_num.ok THEN DeErr(reg_num.err)
        ELSE IF reg_num.v[13] # 0 THEN DeErr("DeserializationError")
        ELSE deserialize_mappings(skip(c2, 13), pc.v, regs)

----------------------------------------------------------------------------
(* The machine under test: Vm::new on a bounded set of descriptions, then   *)
(* any interleaving of cycle, set_reg, set_ram and set_pc.                  *)

MaxCycles == 7
MaxApi == 1

B(b) == IF b THEN 1 ELSE 0

\* an ALU word from its fields, as the setters of the AluInstruction bitfield lay them out
alu_word(u, op, source, target, zx, sw, lt, eq, gt) ==
    B(gt) + 2 * B(eq) + 4 * B(lt) + 8 * target + 64 * B(zx) + 128 * B(sw)
        + 256 * op + 2048 * B(u) + 4096 * source

Data(v) == BIT_15 + v

\* A = 0x10; *A = inc A; A = inc A; *A = add A, A; A = dec A; *A = not A; JMP (to 0x10)
ProgWrites ==
    << Data(16),
       alu_word(TRUE, 2, R_None, R_MA, FALSE, TRUE, FALSE, FALSE, FALSE),
       alu_word(TRUE, 2, R_None, R_A, FALSE, TRUE, FALSE, FALSE, FALSE),
       alu_word(TRUE, 0, R_A, R_MA, FALSE, TRUE, FALSE, FALSE, FALSE),
       alu_word(TRUE, 3, R_None, R_A, FALSE, TRUE, FALSE, FALSE, FALSE),
       alu_word(FALSE, 3, R_None, R_MA, FALSE, TRUE, FALSE, FALSE, FALSE),
       alu_word(FALSE, 0, R_None, R_None, FALSE, FALSE, TRUE, TRUE, TRUE) >>

\* D = dec *A; JEQ-loop back to 0 through A = 0: A = 0; D = inc D; JMP
ProgLoop ==
    << Data(0),
       alu_word(TRUE, 2, R_D, R_D, FALSE, FALSE, FALSE, FALSE, FALSE),
       alu_word(FALSE, 0, R_None, R_MA, FALSE, FALSE, TRUE, TRUE, TRUE) >>

\* A = 0x1234; D = add, 0, A; A = 0; *A = add, 0, D; A = 0x512; JMP as the
\* assembler emits it: the six words, the closing Data(0) of the text pass and
\* the zero words of the const pass
ProgS2 ==
    << Data(4660),
       alu_word(TRUE, 0, R_A, R_D, TRUE, TRUE, FALSE, FALSE, FALSE),
       Data(0),
       alu_word(TRUE, 0, R_D, R_MA, TRUE, TRUE, FALSE, FALSE, FALSE),
       Data(1298),
       alu_word(FALSE, 0, R_None, R_None, FALSE, FALSE, TRUE, TRUE, TRUE),
       Data(0) >> \o [i \in 1..8 |-> 0]

\* the word 0x9234 (A = 0x1234) followed by one zero word
ProgS1 == <<Data(4660), 0>>

Roms == {<<>>, ProgWrites, ProgLoop}

VmDescs ==
    { [pc |-> p, rom |-> rom, mem |-> EmptyRam, callbacks |-> cbs,
       rom_mappings |-> maps, regs |-> regs, rom_blocks |-> blocks] :
        p \in {0}, rom \in Roms,
        cbs \in {<<>>, <<<<16, "cb1">>, <<17, "cb2">>, <<16, "cb3">>>>},
        maps \in {<<>>, <<<<0, 1, 32>>>>},
        regs \in {<<0, 0, 0, 0, 0, 0>>, <<17, 65535, 3, 4, 5, 6>>},
        blocks \in {<<>>, <<<<17, 0>>>>} }

\* the images of the two scenarios: zeroed registers and RAM, PC = 0; the
\* assembler gives the second one an empty mapping at the mount point 0x100
ScenarioDescs ==
    { [default_description EXCEPT !.rom = ProgS1],
      [default_description EXCEPT !.rom = ProgS2, !.rom_mappings = <<<<15, 0, 256>>>>] }

IdleUnit == "idle"
IdleImage == "idle"
IdleSer == "idle"
IdleDbg == "idle"
IdleUart == "idle"
IdleMap == "idle"

NoEnv == [log |-> <<>>, writes |-> <<>>]

Last(op, pre, penv, r, arg, cycles, api) ==
    [op |-> op, pre |-> pre, penv |-> penv, ret |-> r.ret, trace |-> r.trace,
     inst |-> r.inst, arg |-> arg, cycles |-> cycles, api |-> api]

Quiet == [ret |-> Ok, trace |-> NoTrace, inst |-> None]

Init ==
    /\ overflow_checks \in BOOLEAN
    /\ \E desc \in VmDescs \cup ScenarioDescs :
          LET r == vm_new(desc, overflow_checks)
          IN  /\ r.ret.kind = "Ok"
              /\ vm = r.vm
              /\ last = Last("new", r.vm, NoEnv, Quiet, <<0, 0>>, 0, 0)
    /\ env = NoEnv
    /\ munit = IdleUnit /\ mlast = IdleUnit /\ image = IdleImage /\ ser = IdleSer
    /\ dbg = IdleDbg /\ dlast = IdleDbg /\ uart = IdleUart /\ ulast = IdleUart /\ rmap = IdleMap

Alive == last.ret.kind # "panic"

Cycle ==
    /\ Alive
    /\ last.cycles < MaxCycles
    /\ LET r == cycle(vm, env, overflow_checks)
       IN  /\ vm' = r.vm
           /\ env' = r.env
           /\ last' = Last("cycle", vm, env, r, <<0, 0>>, last.cycles + 1, last.api)
    /\ UNCHANGED <<overflow_checks, munit, mlast, image, ser, dbg, dlast, uart, ulast, rmap>>

VmSetReg ==
    /\ Alive
    /\ last.api < MaxApi
    /\ \E reg \in {R_A, R_MA, R_D}, val \in {16, 17} :
          LET r == vm_set_reg(vm, env, reg, val)
          IN  /\ vm' = r.vm
              /\ env' = r.env
              /\ last' = Last("set_reg", vm, env, Quiet, <<reg, val>>, last.cycles, last.api + 1)
    /\ UNCHANGED <<overflow_checks, munit, mlast, image, ser, dbg, dlast, uart, ulast, rmap>>

VmSetRam ==
    /\ Alive
    /\ last.api < MaxApi
    /\ \E address \in {16, 17}, value \in {48879} :
          /\ vm' = vm_set_ram(vm, address, value)
          /\ last' = Last("set_ram", vm, env, Quiet, <<address, value>>, last.cycles, last.api + 1)
    /\ UNCHANGED <<overflow_checks, env, munit, mlast, image, ser, dbg, dlast, uart, ulast, rmap>>

VmSetPc ==
    /\ Alive
    /\ last.api < MaxApi
    /\ \E new \in {0, 65535} :
          /\ vm' = vm_set_pc(vm, new)
          /\ last' = Last("set_pc", vm, env, Quiet, <<new, 0>>, last.cycles, last.api + 1)
    /\ UNCHANGED <<overflow_checks, env, munit, mlast, image, ser, dbg, dlast, uart, ulast, rmap>>

Next == Cycle \/ VmSetReg \/ VmSetRam \/ VmSetPc

Spec == Init /\ [][Next]_vars

----------------------------------------------------------------------------
(* One instruction: a machine whose ROM is a single word, with sampled      *)
(* register and RAM contents, runs one cycle.                               *)

\* operand values at the edges of the 16-bit range
Vals == <<0, 1, 32767, 32768, 65535>>

Ops == {<<u, op>> : u \in BOOLEAN, op \in 0..7}

\* every (u, op), source, zx and sw, stored to D
OpWords ==
    { alu_word(uo[1], uo[2], source, R_D, zx, sw, FALSE, FALSE, FALSE) :
        uo \in Ops, source \in 0..7, zx \in BOOLEAN, sw \in BOOLEAN }

\* every target and every jump condition, for add, dec, and, not, lsr
JumpWords ==
    { alu_word(uo[1], uo[2], R_D, target, FALSE, sw, lt, eq, gt) :
        uo \in {<<TRUE, 0>>, <<TRUE, 3>>, <<FALSE, 0>>, <<FALSE, 3>>, <<FALSE, 5>>},
        target \in 0..7, sw \in BOOLEAN,
        lt \in BOOLEAN, eq \in BOOLEAN, gt \in BOOLEAN }

DataWords == {Data(0), Data(1), Data(4660), Data(16384), Data(32767)}

\* u = 1 with op = 101, 110, 111, for every target and every jump condition
InvalidWords ==
    { alu_word(TRUE, op, source, target, FALSE, FALSE, lt, eq, gt) :
        op \in 5..7, source \in {R_D, R_MA}, target \in 0..7,
        lt \in BOOLEAN, eq \in BOOLEAN, gt \in BOOLEAN }

InstrWords == OpWords \cup JumpWords \cup DataWords \cup InvalidWords

\* RAM contents at the sampled addresses
InstrMem == [x \in {0, 1, 32767, 32768, 65535} |->
                CASE x = 0 -> 32768 [] x = 1 -> 65535 [] x = 32767 -> 2
                  [] x = 32768 -> 32767 [] x = 65535 -> 1]

\* D .. H hold the sampled values, rotated by k
rotated(k) == [i \in 1..5 |-> Vals[((i + k - 1) % 5) + 1]]

InstrDescs ==
    { [pc |-> 0, rom |-> <<w>>, mem |-> InstrMem,
       callbacks |-> <<<<0, "cb1">>, <<32767, "cb2">>>>,
       rom_mappings |-> <<>>,
       regs |-> <<Vals[ia], rotated(k)[1], rotated(k)[2], rotated(k)[3],
                  rotated(k)[4], rotated(k)[5]>>,
       rom_blocks |-> <<<<32767, 0>>>>] :
        w \in InstrWords, ia \in 1..5, k \in 0..4 }

InitInstr ==
    /\ overflow_checks \in BOOLEAN
    /\ \E desc \in InstrDescs :
          LET r == vm_new(desc, overflow_checks)
          IN  /\ r.ret.kind = "Ok"
              /\ vm = r.vm
              /\ last = Last("new", r.vm, NoEnv, Quiet, <<0, 0>>, 0, 0)
    /\ env = NoEnv
    /\ munit = IdleUnit /\ mlast = IdleUnit /\ image = IdleImage /\ ser = IdleSer
    /\ dbg = IdleDbg /\ dlast = IdleDbg /\ uart = IdleUart /\ ulast = IdleUart /\ rmap = IdleMap

CycleOnce == last.op = "new" /\ Cycle

NextInstr == CycleOnce

SpecInstr == InitInstr /\ [][NextInstr]_vars

----------------------------------------------------------------------------
(* Properties of Vm::cycle                                                  *)

\* the values the claims speak of, read off the state before the cycle
IsCycle == last.op = "cycle"
Fetched == last.inst.some
Word == last.inst.v
IsAluWord == Fetched /\ Word < BIT_15
IsDataWord == Fetched /\ Word >= BIT_15
Returned == last.ret.kind = "Ok"
Halted == last.ret.kind = "ExecutionHaltedError"

\* field f of width n at bit lo of a word
Field(w, lo, n) == (w \div Pow2(lo)) % Pow2(n)

\* the stored RAM word of a machine
Stored(v, address) == ram_get(v.mem.ram.ram, address)

\* an address lies in a region that is not ReadWrite
Protected(regions, address) ==
    \E i \in 1..Len(regions) :
        /\ regions[i].start <= address /\ address <= regions[i].end
        /\ regions[i].label # "ReadWrite"

\* an address lies in a region labelled None
Hidden(regions, address) ==
    \E i \in 1..Len(regions) :
        /\ regions[i].start <= address /\ address <= regions[i].end
        /\ regions[i].label = "None"

\* the value of a register code in a machine, *A read through the access check
RegValue(v, code) ==
    CASE code = 0 -> 0
      [] code = 1 -> v.mem.a
      [] code = 2 -> IF Hidden(v.mem.ram.memory_regions, v.mem.a) THEN 0
                     ELSE Stored(v, v.mem.a)
      [] code = 3 -> v.mem.d
      [] code = 4 -> v.mem.e
      [] code = 5 -> v.mem.f
      [] code = 6 -> v.mem.g
      [] code = 7 -> v.mem.h

RegsOf(v) == <<v.mem.a, v.mem.d, v.mem.e, v.mem.f, v.mem.g, v.mem.h>>

\* C1: cycle returns Halted(pc) exactly when pc >= ROM length, and then PC,
\* registers and RAM are unchanged and no callback runs; below the ROM length
\* the word ROM[pc] is the one executed.
C1_HaltedIffPastRom ==
    IsCycle =>
        /\ Halted <=> last.pre.pc >= Len(last.pre.rom)
        /\ Halted =>
              /\ last.ret.value = last.pre.pc
              /\ vm.pc = last.pre.pc
              /\ RegsOf(vm) = RegsOf(last.pre)
              /\ vm.mem.ram.ram = last.pre.mem.ram.ram
              /\ env.log = last.penv.log
        /\ last.pre.pc < Len(last.pre.rom) =>
              /\ Fetched
              /\ Word = last.pre.rom[last.pre.pc + 1]

C1_Witness ==
    /\ IsCycle /\ Halted
    /\ Len(vm.rom) > 0
    /\ vm.pc > Len(vm.rom)
    /\ last.cycles > 1

\* C2: a word with bit 15 set stores its low 15 bits into A, increments PC and
\* leaves D, E, F, G, H and the RAM unchanged.
C2_DataLoadsA ==
    (IsCycle /\ IsDataWord) =>
        /\ Returned
        /\ vm.mem.a = Field(Word, 0, 15)
        /\ vm.pc = (last.pre.pc + 1) % U16
        /\ Tail(RegsOf(vm)) = Tail(RegsOf(last.pre))
        /\ vm.mem.ram.ram = last.pre.mem.ram.ram

C2_Witness ==
    /\ IsCycle /\ IsDataWord
    /\ Word = 37428
    /\ vm.mem.a = 4660
    /\ last.pre.mem.a = 65535
    /\ vm.pc = 1

RECURSIVE WordOf(_, _)
\* the word whose bit i is f[i], from bit i upward
WordOf(f, i) == IF i > 15 THEN 0 ELSE f[i] * Pow2(i) + WordOf(f, i + 1)

Max2(p, q) == IF p > q THEN p ELSE q

\* the operands of the claim: (x, y) = (A, source) when sw is set, else
\* (source, A); x forced to 0 when zx is set
OperandX ==
    IF Field(Word, 6, 1) = 1 THEN 0
    ELSE IF Field(Word, 7, 1) = 1 THEN RegValue(last.pre, 1)
    ELSE RegValue(last.pre, Field(Word, 12, 3))
OperandY ==
    IF Field(Word, 7, 1) = 1 THEN RegValue(last.pre, Field(Word, 12, 3))
    ELSE RegValue(last.pre, 1)

\* the operation table, by name
OpName(w) ==
    IF Field(w, 11, 1) = 1
    THEN CASE Field(w, 8, 3) = 0 -> "add" [] Field(w, 8, 3) = 1 -> "sub"
           [] Field(w, 8, 3) = 2 -> "inc" [] Field(w, 8, 3) = 3 -> "dec"
           [] Field(w, 8, 3) = 4 -> "asr" [] OTHER -> "invalid"
    ELSE CASE Field(w, 8, 3) = 0 -> "and" [] Field(w, 8, 3) = 1 -> "or"
           [] Field(w, 8, 3) = 2 -> "xor" [] Field(w, 8, 3) = 3 -> "not"
           [] Field(w, 8, 3) = 4 -> "lsl" [] Field(w, 8, 3) = 5 -> "lsr"
           [] Field(w, 8, 3) = 6 -> "rol" [] Field(w, 8, 3) = 7 -> "ror"

\* the table entry, stated on integers and on single bits
TableEntry(name, x, y) ==
    CASE name = "add" -> (x + y) % 65536
      [] name = "sub" -> (x - y) % 65536
      [] name = "inc" -> (x + 1) % 65536
      [] name = "dec" -> (x - 1) % 65536
      [] name = "asr" -> WordOf([i \in 0..15 |->
                            IF i = 15 THEN Max2(Bit(x, 15), Bit(x, 14))
                            ELSE IF i = 0 THEN 0 ELSE Bit(x, i - 1)], 0)
      [] name = "and" -> WordOf([i \in 0..15 |-> Bit(x, i) * Bit(y, i)], 0)
      [] name = "or"  -> WordOf([i \in 0..15 |-> Max2(Bit(x, i), Bit(y, i))], 0)
      [] name = "xor" -> WordOf([i \in 0..15 |-> (Bit(x, i) + Bit(y, i)) % 2], 0)
      [] name = "not" -> WordOf([i \in 0..15 |-> 1 - Bit(x, i)], 0)
      [] name = "lsl" -> WordOf([i \in 0..15 |-> IF i = 0 THEN 0 ELSE Bit(x, i - 1)], 0)
      [] name = "lsr" -> WordOf([i \in 0..15 |-> IF i = 15 THEN 0 ELSE Bit(x, i + 1)], 0)
      [] name = "rol" -> WordOf([i \in 0..15 |-> Bit(x, (i + 15) % 16)], 0)
      [] name = "ror" -> WordOf([i \in 0..15 |-> Bit(x, (i + 1) % 16)], 0)

\* C3: for every ALU word whose (u, op) is in the table, the output the cycle
\* computes is the table entry applied to the operands x and y.
C3_AluOutputIsTableEntry ==
    (IsCycle /\ IsAluWord /\ OpName(Word) # "invalid") =>
        /\ last.trace.alu
        /\ last.trace.output = TableEntry(OpName(Word), OperandX, OperandY)
        /\ (Returned /\ Field(Word, 3, 3) = 3) => vm.mem.d = last.trace.output

C3_Witness ==
    /\ IsCycle /\ IsAluWord /\ Returned
    /\ OpName(Word) = "asr"
    /\ OperandX = 32768
    /\ vm.mem.d = 32768
    /\ last.pre.mem.d # 32768

\* C4: the branch is taken iff (output < 0 signed and lt) or (output > 0
\* signed and gt) or (output = 0 and eq); not taken, PC is the old PC plus one.
C4_BranchCondition ==
    (IsCycle /\ IsAluWord /\ OpName(Word) # "invalid") =>
        LET O == TableEntry(OpName(Word), OperandX, OperandY)
            negative == O >= 32768
            positive == O > 0 /\ O < 32768
            wanted == \/ negative /\ Field(Word, 2, 1) = 1
                      \/ positive /\ Field(Word, 0, 1) = 1
                      \/ O = 0 /\ Field(Word, 1, 1) = 1
        IN  /\ last.trace.taken <=> wanted
            /\ ~wanted => (Returned /\ vm.pc = (last.pre.pc + 1) % 65536)

C4_Witness ==
    /\ IsCycle /\ IsAluWord /\ Returned
    /\ last.trace.taken
    /\ Field(Word, 0, 3) = 4
    /\ last.trace.output = 65535
    /\ vm.pc = 32767

\* C5: after a cycle whose branch is taken, PC is the value A held before the
\* cycle, for every A including 0 and also when the target register is A.
C5_TakenBranchLandsOnA ==
    (IsCycle /\ IsAluWord /\ last.trace.taken) =>
        /\ Returned
        /\ vm.pc = last.pre.mem.a

\* C6: an ALU cycle changes no storage but PC and its target: nothing for
\* target None, only the named register (which receives the output) for a
\* register target, only RAM[A] through the access-checked write for *A.
C6_AluFrame ==
    (IsCycle /\ IsAluWord) =>
        LET target == Field(Word, 3, 3)
            regions == last.pre.mem.ram.memory_regions
            at == last.pre.mem.a
            idx == CASE target = 1 -> 1 [] target = 3 -> 2 [] target = 4 -> 3
                     [] target = 5 -> 4 [] target = 6 -> 5 [] target = 7 -> 6
                     [] OTHER -> 0
        IN  /\ vm.rom = last.pre.rom
            /\ vm.mem.ram.memory_regions = regions
            /\ vm.mem.ram.write_callbacks = last.pre.mem.ram.write_callbacks
            /\ \A i \in 1..6 : i # idx => RegsOf(vm)[i] = RegsOf(last.pre)[i]
            /\ (idx # 0 /\ Returned) => RegsOf(vm)[idx] = last.trace.output
            /\ target # 2 => vm.mem.ram.ram = last.pre.mem.ram.ram
            /\ \A x \in (DOMAIN vm.mem.ram.ram) \cup (DOMAIN last.pre.mem.ram.ram) :
                  x # at => Stored(vm, x) = Stored(last.pre, x)
            /\ (target = 2 /\ Returned) =>
                  Stored(vm, at) = IF Protected(regions, at) THEN Stored(last.pre, at)
                                   ELSE last.trace.output
            /\ ~Returned => vm = last.pre

C6_Witness ==
    /\ IsCycle /\ IsAluWord /\ Returned
    /\ Field(Word, 3, 3) = 2
    /\ last.pre.mem.a = 32767
    /\ Protected(vm.mem.ram.memory_regions, 32767)
    /\ last.trace.output # Stored(last.pre, 32767)
    /\ Stored(vm, 32767) = 2

\* C15: the program of scenario S2, started at PC = 0 with zeroed registers
\* and RAM, has after 6 cycles A = 0x512, D = 0x1234, PC = 0x512, RAM[0] =
\* 0x1234 and RAM[1] = 0, and its 7th cycle returns Halted.
C15_ScenarioS2 ==
    (vm.rom = ProgS2 /\ last.api = 0) =>
        /\ last.cycles = 0 =>
              /\ vm.pc = 0
              /\ RegsOf(vm) = <<0, 0, 0, 0, 0, 0>>
              /\ \A x \in 0..(RAM_LEN - 1) : Stored(vm, x) = 0
        /\ last.cycles \in 1..6 => Returned
        /\ last.cycles \in {6, 7} =>
              /\ vm.mem.a = 1298
              /\ vm.mem.d = 4660
              /\ vm.pc = 1298
              /\ Stored(vm, 0) = 4660
              /\ Stored(vm, 1) = 0
        /\ last.cycles = 7 => Halted

C15_Witness ==
    /\ vm.rom = ProgS2 /\ last.api = 0
    /\ last.cycles = 7
    /\ IsCycle /\ Halted
    /\ vm.pc = 1298
    /\ Stored(vm, 0) = 4660

\* the first cycle of scenario S1
S1FirstCycle ==
    (vm.rom = ProgS1 /\ last.api = 0) =>
        /\ last.cycles = 0 =>
              /\ vm.pc = 0
              /\ RegsOf(vm) = <<0, 0, 0, 0, 0, 0>>
        /\ last.cycles = 1 =>
              /\ Returned
              /\ vm.mem.a = 4660
              /\ vm.pc = 1

\* C16 as stated: with the ROM 0x9234, 0x0000 and PC = 0, after the first
\* cycle A = 0x1234 and PC = 1, and the second cycle returns Halted(2).
C16_SecondCycleHalts ==
    /\ S1FirstCycle
    /\ (vm.rom = ProgS1 /\ last.api = 0 /\ last.cycles = 2) =>
          /\ Halted
          /\ last.ret.value = 2

\* C16 as amended: after the first cycle A = 0x1234 and PC = 1; the second
\* cycle executes the zero word, which changes nothing but PC, now 2; the
\* third cycle returns Halted(2).
C16_ThirdCycleHalts ==
    /\ S1FirstCycle
    /\ (vm.rom = ProgS1 /\ last.api = 0 /\ last.cycles = 2) =>
          /\ Returned
          /\ Word = 0
          /\ vm.pc = 2
          /\ RegsOf(vm) = <<4660, 0, 0, 0, 0, 0>>
          /\ vm.mem.ram.ram = last.pre.mem.ram.ram
    /\ (vm.rom = ProgS1 /\ last.api = 0 /\ last.cycles = 3) =>
          /\ Halted
          /\ last.ret.value = 2
          /\ vm.mem.a = 4660

C16_Witness ==
    /\ vm.rom = ProgS1 /\ last.api = 0
    /\ last.cycles = 3
    /\ IsCycle /\ Halted
    /\ last.ret.value = 2
    /\ vm.mem.a = 4660

\* C17: for every ALU word with u = 1 and op in {101, 110, 111}, cycle
\* returns InvalidInstructionError carrying that word, and PC, all registers,
\* all of RAM and the callbacks' record are left as they were.
C17_InvalidInstructionNoEffect ==
    (IsCycle /\ IsAluWord /\ Field(Word, 11, 1) = 1 /\ Field(Word, 8, 3) \in 5..7) =>
        /\ last.ret = Err("InvalidInstructionError", Word)
        /\ vm.pc = last.pre.pc
        /\ RegsOf(vm) = RegsOf(last.pre)
        /\ vm.mem.ram.ram = last.pre.mem.ram.ram
        /\ env = last.penv

\* an invalid word that targets *A at a callback address and jumps always
C17_Witness ==
    /\ IsCycle /\ IsAluWord
    /\ Field(Word, 11, 1) = 1 /\ Field(Word, 8, 3) = 7
    /\ Field(Word, 3, 3) = 2 /\ Field(Word, 0, 3) = 7
    /\ last.pre.mem.a = 0
    /\ last.ret.kind = "InvalidInstructionError"
    /\ last.ret.value = Word
    /\ vm.pc = 0

----------------------------------------------------------------------------
(* A MemoryUnit built by MemoryUnit::new over region lists of every access  *)
(* level, driven through set_reg, get_reg and the raw stores.               *)

MaxMemOps == 3

RegionLists ==
    { <<>>,
      <<Region(256, 511, "Read"), Region(512, 767, "None")>>,
      <<Region(512, 767, "None"), Region(0, 15, "ReadWrite"), Region(256, 511, "Read")>>,
      <<Region(768, 768, "Read"), Region(256, 511, "None"), Region(512, 767, "Read"),
        Region(0, 255, "ReadWrite")>>,
      <<Region(0, 65535, "ReadWrite")>>,
      <<Region(256, 255, "Read")>>,
      <<Region(256, 512, "Read"), Region(512, 767, "None")>> }

MemAddrs == {255, 256, 511, 512, 767, 768}

IdleVm == "idle"

MLast(op, arg, ret, raw, n) == [op |-> op, arg |-> arg, ret |-> ret, raw |-> raw, n |-> n]

InitMem ==
    /\ \E regions \in RegionLists, a0 \in {256, 512} :
          LET r == memory_unit_new(a0, 1, 2, 3, 4, 5, EmptyRam, regions)
          IN  /\ r.ok
              /\ munit = r.mem
              /\ mlast = MLast("new", <<0, 0>>, <<>>, EmptyRam, 0)
    /\ env = NoEnv
    /\ overflow_checks = FALSE
    /\ vm = IdleVm /\ last = IdleVm /\ image = IdleImage /\ ser = IdleSer
    /\ dbg = IdleDbg /\ dlast = IdleDbg /\ uart = IdleUart /\ ulast = IdleUart /\ rmap = IdleMap

MuSetReg ==
    /\ mlast.n < MaxMemOps
    /\ \E rv \in {<<R_A, x>> : x \in MemAddrs} \cup {<<R_MA, 3567>>, <<R_MA, 1>>, <<R_D, 4660>>} :
          LET r == set_reg(munit, env, rv[1], rv[2])
          IN  /\ munit' = r.mem
              /\ env' = r.env
              /\ mlast' = MLast("set_reg", rv, <<>>, mlast.raw, mlast.n + 1)
    /\ UNCHANGED <<overflow_checks, vm, last, image, ser, dbg, dlast, uart, ulast, rmap>>

MuGetReg ==
    /\ mlast.n < MaxMemOps
    /\ \E reg \in {R_None, R_A, R_MA, R_D} :
          mlast' = MLast("get_reg", <<reg, 0>>, <<get_reg(munit, reg)>>, mlast.raw, mlast.n + 1)
    /\ UNCHANGED <<overflow_checks, vm, last, image, ser, munit, env, dbg, dlast, uart, ulast, rmap>>

MuSetRam ==
    /\ mlast.n < MaxMemOps
    /\ \E address \in {256, 512, 768}, value \in {2748, 0} :
          /\ munit' = [munit EXCEPT !.ram = set_ram(@, address, value)]
          /\ mlast' = MLast("set_ram", <<address, value>>, <<>>,
                            ram_put(mlast.raw, address, value), mlast.n + 1)
    /\ UNCHANGED <<overflow_checks, vm, last, image, ser, env, dbg, dlast, uart, ulast, rmap>>

MuSetRamRegion ==
    /\ mlast.n < MaxMemOps
    /\ \E address \in {510, 65534}, values \in {<<7, 0, 9>>} :
          LET r == set_ram_region(munit.ram, address, values)
              g == set_ram_region(ram_new(mlast.raw, <<>>), address, values)
          IN  /\ munit' = [munit EXCEPT !.ram = r.ram]
              /\ mlast' = MLast("set_ram_region", <<address, Len(values)>>, <<r.ret.kind>>,
                                g.ram.ram, mlast.n + 1)
    /\ UNCHANGED <<overflow_checks, vm, last, image, ser, env, dbg, dlast, uart, ulast, rmap>>

MuGetRamRegion ==
    /\ mlast.n < MaxMemOps
    /\ \E address \in {511, 512, 65535}, length \in {1, 2} :
          mlast' = MLast("get_ram_region", <<address, length>>,
                         get_ram_region(munit.ram, address, length), mlast.raw, mlast.n + 1)
    /\ UNCHANGED <<overflow_checks, vm, last, image, ser, munit, env, dbg, dlast, uart, ulast, rmap>>

MuRegisterCallback ==
    /\ mlast.n < MaxMemOps
    /\ \E address \in {255, 256}, cb \in {"cb1", "cb2"} :
          /\ munit' = [munit EXCEPT !.ram = register_callback(@, address, cb)]
          /\ mlast' = MLast("register_callback", <<address, 0>>, <<>>, mlast.raw, mlast.n + 1)
    /\ UNCHANGED <<overflow_checks, vm, last, image, ser, env, dbg, dlast, uart, ulast, rmap>>

NextMem ==
    MuSetReg \/ MuGetReg \/ MuSetRam \/ MuSetRamRegion \/ MuGetRamRegion \/ MuRegisterCallback

SpecMem == InitMem /\ [][NextMem]_vars

\* C7: a word inside a Read or None region is never changed by the
\* access-checked write; it holds what the raw stores (set_ram,
\* set_ram_region) last put there.
C7_ProtectedWordsKeepRawValue ==
    \A x \in (DOMAIN munit.ram.ram) \cup (DOMAIN mlast.raw) \cup MemAddrs :
        Protected(munit.ram.memory_regions, x) =>
            ram_get(munit.ram.ram, x) = ram_get(mlast.raw, x)

C7_Witness ==
    /\ mlast.op = "set_reg"
    /\ mlast.arg = <<R_MA, 3567>>
    /\ munit.a = 256
    /\ Protected(munit.ram.memory_regions, 256)
    /\ ram_get(munit.ram.ram, 256) = 2748

\* C8: the access-checked read returns 0 inside a None region whatever the
\* backing store holds and the stored word everywhere else; get_ram_region
\* returns the backing words.
C8_ReadHidesNoneRegions ==
    /\ (mlast.op = "get_reg" /\ mlast.arg[1] = R_MA) =>
          mlast.ret[1] = IF Hidden(munit.ram.memory_regions, munit.a) THEN 0
                         ELSE ram_get(munit.ram.ram, munit.a)
    /\ mlast.op = "get_ram_region" =>
          LET address == mlast.arg[1]
              stop == IF address + mlast.arg[2] > 65536 THEN 65536 ELSE address + mlast.arg[2]
          IN  /\ Len(mlast.ret) = stop - address
              /\ \A i \in 1..Len(mlast.ret) :
                    mlast.ret[i] = ram_get(munit.ram.ram, address + i - 1)

C8_Witness ==
    /\ mlast.op = "get_reg" /\ mlast.arg[1] = R_MA
    /\ munit.a = 512
    /\ Hidden(munit.ram.memory_regions, 512)
    /\ ram_get(munit.ram.ram, 512) = 2748
    /\ get_ram_region(munit.ram, 512, 1) = <<2748>>
    /\ mlast.ret = <<0>>

\* C9: over any sequence of cycles the callback registered at an address runs
\* exactly once for each access-checked write to that address that lands in a
\* ReadWrite location, with the written value, after the store and in program
\* order; never for another address or for a dropped write.
C9_CallbackOncePerLandedWrite ==
    LET r == vm.mem.ram
        Landed(w) == /\ ~Protected(r.memory_regions, w.position)
                     /\ w.position \in DOMAIN r.write_callbacks
        landed == SelectSeq(env.writes, Landed)
    IN  /\ Len(env.log) = Len(landed)
        /\ \A i \in 1..Len(landed) :
              env.log[i] = [cb |-> r.write_callbacks[landed[i].position],
                            value |-> landed[i].value,
                            stored |-> landed[i].value]

C9_Witness ==
    /\ IsCycle /\ Returned
    /\ Len(env.log) = 2
    /\ env.log[1] = [cb |-> "cb3", value |-> 17, stored |-> 17]
    /\ env.log[2].cb = "cb3"
    /\ \E i \in 1..Len(env.writes) :
          /\ env.writes[i].position = 17
          /\ Protected(vm.mem.ram.memory_regions, 17)
          /\ 17 \in DOMAIN vm.mem.ram.write_callbacks

----------------------------------------------------------------------------
(* Serialization: an image without callbacks and rom_blocks is serialized,   *)
(* the bytes are deserialized, and the result is serialized again.           *)

\* the image of test_vm_description: mem[i] = i
CountingMem == [x \in 1..(RAM_LEN - 1) |-> x]

SerImages ==
    { [pc |-> 291, rom |-> rom, mem |-> mem, callbacks |-> <<>>,
       rom_mappings |-> maps, regs |-> <<1, 2, 3, 4, 5, 6>>, rom_blocks |-> <<>>] :
        rom \in { <<>>, <<4660, 22136>>, <<0, 82, 20301, 21057, 19712>>,
                  [i \in 1..65535 |-> i % 7], [i \in 1..65536 |-> 0] },
        maps \in { <<>>, <<<<291, 1110, 1929>>>>, <<<<0, 0, 0>>, <<65535, 65535, 65535>>>> },
        mem \in { EmptyRam, [x \in {0, 65535} |-> IF x = 0 THEN 48879 ELSE 255] } }
    \cup { default_description,
           [default_description EXCEPT !.pc = 65535, !.regs = <<0, 65280, 255, 65535, 256, 0>>],
           [default_description EXCEPT !.mem = CountingMem, !.pc = 291,
                                       !.rom = <<4660, 22136>>,
                                       !.rom_mappings = <<<<291, 1110, 1929>>>>,
                                       !.regs = <<1, 2, 3, 4, 5, 6>>],
           [default_description EXCEPT !.rom_mappings = [i \in 1..65535 |-> <<i, 0, i>>]],
           [default_description EXCEPT !.rom_mappings = [i \in 1..65536 |-> <<0, 0, 0>>]] }

NoBytes == [ok |-> FALSE, err |-> "", bytes |-> <<>>]
NoImage == DeErr("")

InitSer ==
    /\ image \in SerImages
    /\ ser = [stage |-> "image", first |-> NoBytes, back |-> NoImage, second |-> NoBytes]
    /\ overflow_checks = FALSE
    /\ env = NoEnv
    /\ vm = IdleVm /\ last = IdleVm /\ munit = IdleUnit /\ mlast = IdleUnit
    /\ dbg = IdleDbg /\ dlast = IdleDbg /\ uart = IdleUart /\ ulast = IdleUart /\ rmap = IdleMap

Serialize ==
    /\ ser.stage = "image"
    /\ ser' = [ser EXCEPT !.stage = "serialized", !.first = serialize(image)]
    /\ UNCHANGED <<overflow_checks, vm, env, last, munit, mlast, image, dbg, dlast, uart, ulast, rmap>>

Deserialize ==
    /\ ser.stage = "serialized"
    /\ ser.first.ok
    /\ ser' = [ser EXCEPT !.stage = "deserialized", !.back = deserialize(ser.first.bytes)]
    /\ UNCHANGED <<overflow_checks, vm, env, last, munit, mlast, image, dbg, dlast, uart, ulast, rmap>>

Reserialize ==
    /\ ser.stage = "deserialized"
    /\ ser.back.ok
    /\ ser' = [ser EXCEPT !.stage = "reserialized", !.second = serialize(ser.back.desc)]
    /\ UNCHANGED <<overflow_checks, vm, env, last, munit, mlast, image, dbg, dlast, uart, ulast, rmap>>

NextSer == Serialize \/ Deserialize \/ Reserialize

SpecSer == InitSer /\ [][NextSer]_vars

\* the round trip, as far as the stage reached
RoundTrip ==
    /\ ser.stage # "image" => ser.first.ok
    /\ ser.stage \in {"deserialized", "reserialized"} =>
          /\ ser.back.ok
          /\ ser.back.desc.pc = image.pc
          /\ ser.back.desc.rom = image.rom
          /\ ser.back.desc.mem = image.mem
          /\ ser.back.desc.regs = image.regs
          /\ ser.back.desc.rom_mappings = image.rom_mappings
    /\ ser.stage = "reserialized" =>
          /\ ser.second.ok
          /\ ser.second.bytes = ser.first.bytes

\* C10 as stated: for every image without callbacks and rom_blocks,
\* deserialize(serialize(I)) succeeds and equals I in PC, ROM, RAM, register
\* inits and mappings, and serializing the result again gives the same bytes.
C10_RoundTripEveryImage == RoundTrip

\* C10 as amended: the same for every image with at most 0xFFFF ROM words and
\* at most 0xFFFF mappings; a larger image is rejected by serialize.
C10_RoundTripWithinLimits ==
    IF Len(image.rom) <= 65535 /\ Len(image.rom_mappings) <= 65535
    THEN RoundTrip
    ELSE ser.stage # "image" =>
            /\ ser.stage = "serialized"
            /\ ~ser.first.ok
            /\ ser.first.err = "SerializationError"

C10_Witness ==
    /\ ser.stage = "reserialized"
    /\ image.mem = CountingMem
    /\ image.rom_mappings = <<<<291, 1110, 1929>>>>
    /\ ser.back.desc.mem = CountingMem
    /\ Len(ser.first.bytes) = 131123
    /\ ser.second.bytes = ser.first.bytes

----------------------------------------------------------------------------
(* mmio/uart.rs: Uart.  A VecDeque is a sequence whose front is its first  *)
(* element and whose back is its last.                                      *)

\* input flags
IO == 1
DA == 2
OR == 4
\* output flags
OW == 1
IR == 2
RU == 4

INPUT_BUF_LEN == 255
OUTPUT_BUF_LEN == 255

U_BAUD == 24576
U_OUT == 24577
U_IN == 24578
U_IFL == 24579
U_OFL == 24580

push_front(q, x) == <<x>> \o q
\* the queue left by VecDeque::pop_back
pop_back(q) == IF q = <<>> THEN q ELSE SubSeq(q, 1, Len(q) - 1)
\* the element returned by VecDeque::pop_back
back(q) == IF q = <<>> THEN None ELSE Some(q[Len(q)])

\* Uart::default
uart_default ==
    [input |-> <<>>, output |-> <<>>, write_reg |-> 0, read_reg |-> 0, in_flags |-> 4]

\* Uart::write_reg_changed
write_reg_changed(u, reg_content) ==
    [u EXCEPT !.write_reg = bit_and(reg_content, bit_not(255 * 256)) % 256]

\* the "output written" arm of output_flags_changed
output_written(u) ==
    LET pushed == push_front(u.output, u.write_reg)
        out_len == Len(pushed)
    IN  IF out_len > OUTPUT_BUF_LEN
        THEN [u EXCEPT !.output = pop_back(pushed)]
        ELSE IF out_len = OUTPUT_BUF_LEN
        THEN [u EXCEPT !.output = pushed, !.in_flags = bit_and(@, bit_not(OR))]
        ELSE [u EXCEPT !.output = pushed, !.in_flags = bit_or(@, OR)]

\* the "input read" arm without the clearing of IO
input_read_keeps_io(u) ==
    LET popped == back(u.input)
        rest == pop_back(u.input)
        flags == IF Len(rest) > 0 THEN bit_or(u.in_flags, DA)
                 ELSE bit_and(u.in_flags, bit_not(DA))
    IN  [u EXCEPT !.read_reg = IF popped.some THEN popped.v ELSE 0,
                  !.input = rest,
                  !.in_flags = flags]

\* the "input read" arm that latches the oldest byte and leaves it queued
input_read_keeps_byte(u) ==
    LET popped == back(u.input)
        rest == u.input
        flags == IF Len(rest) > 0 THEN bit_or(u.in_flags, DA)
                 ELSE bit_and(u.in_flags, bit_not(DA))
    IN  [u EXCEPT !.read_reg = IF popped.some THEN popped.v ELSE 0,
                  !.input = rest,
                  !.in_flags = bit_and(flags, bit_not(IO))]

\* the "input read" arm of output_flags_changed
input_read(u) ==
    LET popped == back(u.input)
        rest == pop_back(u.input)
        flags == IF Len(rest) > 0 THEN bit_or(u.in_flags, DA)
                 ELSE bit_and(u.in_flags, bit_not(DA))
    IN  [u EXCEPT !.read_reg = IF popped.some THEN popped.v ELSE 0,
                  !.input = rest,
                  !.in_flags = bit_and(flags, bit_not(IO))]

\* the "reset" arm of output_flags_changed
reset_uart(u) ==
    [input |-> <<>>, output |-> <<>>, write_reg |-> 0, read_reg |-> 0, in_flags |-> 4]

\* output_flags_changed with the reset arm taken before the other two
output_flags_changed_resets_first(u, reg_content) ==
    LET u0 == IF bit_and(reg_content, RU) # 0 THEN reset_uart(u) ELSE u
        u1 == IF bit_and(reg_content, OW) # 0 THEN output_written(u0) ELSE u0
    IN  IF bit_and(reg_content, IR) # 0 THEN input_read(u1) ELSE u1

\* Uart::output_flags_changed
output_flags_changed(u, reg_content) ==
    LET u1 == IF bit_and(reg_content, OW) # 0 THEN output_written(u) ELSE u
        u2 == IF bit_and(reg_content, IR) # 0 THEN input_read(u1) ELSE u1
    IN  IF bit_and(reg_content, RU) # 0 THEN reset_uart(u2) ELSE u2

\* put_input that refuses the new byte when the queue is full
put_input_drops_newest(u, input_byte) ==
    LET pushed == push_front(u.input, input_byte)
        inp_len == Len(pushed)
        flags == bit_or(u.in_flags, DA)
    IN  IF inp_len > INPUT_BUF_LEN
        THEN [u EXCEPT !.in_flags = flags]
        ELSE IF inp_len = INPUT_BUF_LEN
        THEN [u EXCEPT !.input = pushed, !.in_flags = bit_or(flags, IO)]
        ELSE [u EXCEPT !.input = pushed, !.in_flags = flags]

\* put_input that never drops the oldest byte
put_input_unbounded(u, input_byte) ==
    LET pushed == push_front(u.input, input_byte)
        inp_len == Len(pushed)
        flags == bit_or(u.in_flags, DA)
    IN  IF inp_len >= INPUT_BUF_LEN
        THEN [u EXCEPT !.input = pushed, !.in_flags = bit_or(flags, IO)]
        ELSE [u EXCEPT !.input = pushed, !.in_flags = flags]

\* Uart::put_input
put_input(u, input_byte) ==
    LET pushed == push_front(u.input, input_byte)
        inp_len == Len(pushed)
        flags == bit_or(u.in_flags, DA)
    IN  IF inp_len > INPUT_BUF_LEN
        THEN [u EXCEPT !.input = pop_back(pushed), !.in_flags = flags]
        ELSE IF inp_len = INPUT_BUF_LEN
        THEN [u EXCEPT !.input = pushed, !.in_flags = bit_or(flags, IO)]
        ELSE [u EXCEPT !.input = pushed, !.in_flags = flags]

\* Uart::get_in_flags
get_in_flags(u) == u.in_flags

\* Uart::get_input
get_input(u) == u.read_reg

\* get_output that takes the byte written last
get_output_newest_first(u) ==
    [ret |-> IF u.output = <<>> THEN None ELSE Some(Head(u.output)),
     uart |-> [u EXCEPT !.output = IF @ = <<>> THEN @ ELSE Tail(@)]]

\* Uart::get_output; returns the byte, if any, and the new Uart
get_output(u) == [ret |-> back(u.output), uart |-> [u EXCEPT !.output = pop_back(@)]]

\* the closures that connect_uart registers at U_OUT and U_OFL
WriteChange == "write_change"
OfChange == "of_change"

\* connect_uart that mounts the Uart without the block at U_IN
connect_uart_without_block(vm_desc, oc) ==
    LET desc == [vm_desc EXCEPT
                    !.callbacks = @ \o <<<<U_OUT, WriteChange>>, <<U_OFL, OfChange>>>>,
                    !.mem = ram_put(@, U_IFL, 4)]
        r == vm_new(desc, oc)
    IN  [ret |-> r.ret, vm |-> r.vm, uart |-> uart_default]

\* connect_uart; returns the result of Vm::new and the Uart
connect_uart(vm_desc, oc) ==
    LET desc == [vm_desc EXCEPT
                    !.rom_blocks = Append(@, <<U_IN, 1>>),
                    !.callbacks = @ \o <<<<U_OUT, WriteChange>>, <<U_OFL, OfChange>>>>,
                    !.mem = ram_put(@, U_IFL, 4)]
        r == vm_new(desc, oc)
    IN  [ret |-> r.ret, vm |-> r.vm, uart |-> uart_default]

RECURSIVE uart_callbacks(_, _)
\* the effect on the Uart of the closures that ran, in the order they ran
uart_callbacks(u, calls) ==
    IF calls = <<>> THEN u
    ELSE LET c == calls[1]
             u1 == IF c.cb = WriteChange THEN write_reg_changed(u, c.value)
                   ELSE IF c.cb = OfChange THEN output_flags_changed(u, c.value)
                   ELSE u
         IN  uart_callbacks(u1, Tail(calls))

----------------------------------------------------------------------------
(* debugger.rs: Debugger.  The field uart is an Option; when it is None its *)
(* payload is a default Uart that nothing reads.                            *)

NoUart == [some |-> FALSE, v |-> uart_default]

BadDebugger ==
    [vm |-> BadVm, breakpoints |-> {}, halted |-> FALSE, uart |-> NoUart,
     current_uart_out |-> <<>>]

\* Debugger::new
debugger_new(description, breakpoints, use_uart, oc) ==
    LET c == connect_uart(description, oc)
        n == vm_new(description, oc)
        ret == IF use_uart THEN c.ret ELSE n.ret
    IN  IF ret.kind # "Ok" THEN [ret |-> ret, dbg |-> BadDebugger]
        ELSE [ret |-> Ok,
              dbg |-> [vm |-> IF use_uart THEN c.vm ELSE n.vm,
                       breakpoints |-> {breakpoints[i] : i \in 1..Len(breakpoints)},
                       halted |-> FALSE,
                       uart |-> IF use_uart THEN Some(c.uart) ELSE NoUart,
                       current_uart_out |-> <<>>]]

\* Vm::get_pc
vm_get_pc(v) == v.pc

\* the end of Debugger::cycle without the store to U_IN
uart_synced_flags_only(d, r, out) ==
    [dbg |-> [d EXCEPT !.vm = vm_set_ram(r.vm, U_IFL, get_in_flags(out.uart)),
                       !.uart.v = out.uart,
                       !.current_uart_out = IF out.ret.some THEN Append(@, out.ret.v) ELSE @],
     env |-> r.env, ret |-> Ok]

\* the end of Debugger::cycle when a Uart is attached: its output is read
\* into current_uart_out and its registers are stored to U_IN and U_IFL
uart_synced(d, r, out) ==
    [dbg |-> [d EXCEPT !.vm = vm_set_ram(vm_set_ram(r.vm, U_IN, get_input(out.uart)),
                                         U_IFL, get_in_flags(out.uart)),
                       !.uart.v = out.uart,
                       !.current_uart_out = IF out.ret.some THEN Append(@, out.ret.v) ELSE @],
     env |-> r.env, ret |-> Ok]

\* Debugger::cycle that leaves the output of the Uart where it is
cycle_with_uart_leaves_output(d, r, curt) ==
    IF r.ret.kind # "Ok"
    THEN [dbg |-> [d EXCEPT !.vm = r.vm, !.uart.v = curt], env |-> r.env, ret |-> r.ret]
    ELSE uart_synced(d, r, [ret |-> None, uart |-> curt])

\* Debugger::cycle after self.vm.cycle() returned r and left the Uart as curt
cycle_with_uart(d, r, curt) ==
    IF r.ret.kind # "Ok"
    THEN [dbg |-> [d EXCEPT !.vm = r.vm, !.uart.v = curt], env |-> r.env, ret |-> r.ret]
    ELSE uart_synced(d, r, get_output(curt))

\* Debugger::cycle after self.vm.cycle() returned r; the closures registered
\* by connect_uart acted on the shared Uart while Vm::cycle ran
cycle_returned(d, ev, r) ==
    IF ~d.uart.some
    THEN [dbg |-> [d EXCEPT !.vm = r.vm], env |-> r.env, ret |-> r.ret]
    ELSE cycle_with_uart(d, r, uart_callbacks(d.uart.v,
                                              SubSeq(r.env.log, Len(ev.log) + 1, Len(r.env.log))))

\* Debugger::cycle (the private one)
debugger_cycle(d, ev, oc) == cycle_returned(d, ev, cycle(d.vm, ev, oc))

\* what one pass of the loop of run, or step, did: the result of the cycle and
\* the PC after it
Pass(ret, pc) == [ret |-> ret, pc |-> pc]

\* the match of step with the Halted arm leaving the flag alone
step_match_stays_running(r) ==
    [dbg |-> r.dbg,
     env |-> r.env,
     ret |-> IF r.ret.kind \in {"Ok", "ExecutionHaltedError"} THEN Ok ELSE Panic,
     passes |-> <<Pass(r.ret.kind, vm_get_pc(r.dbg.vm))>>]

\* the match of Debugger::step on the result r of self.cycle()
step_match(r) ==
    [dbg |-> IF r.ret.kind = "ExecutionHaltedError" THEN [r.dbg EXCEPT !.halted = TRUE]
             ELSE r.dbg,
     env |-> r.env,
     ret |-> IF r.ret.kind \in {"Ok", "ExecutionHaltedError"} THEN Ok ELSE Panic,
     passes |-> <<Pass(r.ret.kind, vm_get_pc(r.dbg.vm))>>]

\* Debugger::step; passes lists the calls of Debugger::cycle it made
debugger_step(d, ev, oc) ==
    IF d.halted THEN [dbg |-> d, env |-> ev, ret |-> Ok, passes |-> <<>>]
    ELSE step_match(debugger_cycle(d, ev, oc))

RECURSIVE run_loop(_, _, _, _, _)
RECURSIVE run_match(_, _, _, _)
\* the loop running over 0..=max_iter
run_loop_inclusive(d, ev, remaining, oc, passes) ==
    IF remaining < 0 THEN [dbg |-> d, env |-> ev, ret |-> Ok, passes |-> passes]
    ELSE run_match(debugger_cycle(d, ev, oc), remaining, oc, passes)

\* for _ in 0..max_iter of Debugger::run, with remaining iterations left
run_loop(d, ev, remaining, oc, passes) ==
    IF remaining = 0 THEN [dbg |-> d, env |-> ev, ret |-> Ok, passes |-> passes]
    ELSE run_match(debugger_cycle(d, ev, oc), remaining, oc, passes)

\* the loop body without the breakpoint test
run_match_no_breakpoints(r, remaining, oc, passes) ==
    IF r.ret.kind = "ExecutionHaltedError"
    THEN [dbg |-> [r.dbg EXCEPT !.halted = TRUE], env |-> r.env, ret |-> Ok,
          passes |-> Append(passes, Pass(r.ret.kind, vm_get_pc(r.dbg.vm)))]
    ELSE IF r.ret.kind # "Ok"
    THEN [dbg |-> r.dbg, env |-> r.env, ret |-> Panic,
          passes |-> Append(passes, Pass(r.ret.kind, vm_get_pc(r.dbg.vm)))]
    ELSE run_loop(r.dbg, r.env, remaining - 1, oc,
                  Append(passes, Pass(r.ret.kind, vm_get_pc(r.dbg.vm))))

\* the body of the loop of Debugger::run on the result r of self.cycle()
run_match(r, remaining, oc, passes) ==
    IF r.ret.kind = "ExecutionHaltedError"
    THEN [dbg |-> [r.dbg EXCEPT !.halted = TRUE], env |-> r.env, ret |-> Ok,
          passes |-> Append(passes, Pass(r.ret.kind, vm_get_pc(r.dbg.vm)))]
    ELSE IF r.ret.kind # "Ok"
    THEN [dbg |-> r.dbg, env |-> r.env, ret |-> Panic,
          passes |-> Append(passes, Pass(r.ret.kind, vm_get_pc(r.dbg.vm)))]
    ELSE IF vm_get_pc(r.dbg.vm) \in r.dbg.breakpoints
    THEN [dbg |-> r.dbg, env |-> r.env, ret |-> Ok,
          passes |-> Append(passes, Pass(r.ret.kind, vm_get_pc(r.dbg.vm)))]
    ELSE run_loop(r.dbg, r.env, remaining - 1, oc,
                  Append(passes, Pass(r.ret.kind, vm_get_pc(r.dbg.vm))))

\* Debugger::run
debugger_run(d, ev, max_iter, oc) ==
    IF d.halted THEN [dbg |-> d, env |-> ev, ret |-> Ok, passes |-> <<>>]
    ELSE run_loop(d, ev, max_iter, oc, <<>>)

\* Debugger::register_breakpoint
register_breakpoint(d, breakpoint) == [d EXCEPT !.breakpoints = @ \cup {breakpoint}]

\* Debugger::remove_breakpoint; returns whether it was there and the new Debugger
remove_breakpoint(d, breakpoint) ==
    [ret |-> breakpoint \in d.breakpoints,
     dbg |-> [d EXCEPT !.breakpoints = @ \ {breakpoint}]]

\* set_pc that also clears the halted flag
debugger_set_pc_resumes(d, new_value) ==
    [d EXCEPT !.vm = vm_set_pc(@, new_value), !.halted = FALSE]

\* Debugger::set_pc
debugger_set_pc(d, new_value) == [d EXCEPT !.vm = vm_set_pc(@, new_value)]

\* Debugger::set_reg after Vm::set_reg returned r
set_reg_returned(d, ev, r) ==
    [dbg |-> [d EXCEPT !.vm = r.vm,
                       !.uart.v = IF d.uart.some
                                  THEN uart_callbacks(@, SubSeq(r.env.log, Len(ev.log) + 1,
                                                                Len(r.env.log)))
                                  ELSE @],
     env |-> r.env]

\* Debugger::set_reg
debugger_set_reg(d, ev, register, value) ==
    set_reg_returned(d, ev, vm_set_reg(d.vm, ev, register, value))

\* Debugger::write_uart_byte
write_uart_byte(d, byte) ==
    IF d.uart.some THEN [d EXCEPT !.uart.v = put_input(@, byte)] ELSE d

\* Debugger::get_uart_out; returns the string and the new Debugger
get_uart_out(d) == [ret |-> d.current_uart_out, dbg |-> [d EXCEPT !.current_uart_out = <<>>]]

\* b"BDB\x00BPS\x00" as Debugger::serialize writes it
bdb_magic_out == <<66, 68, 66, 0, 66, 80, 83, 0>>
\* b"BDB\x00" as Debugger::deserialize expects and skips it
bdb_magic_in == <<66, 68, 66, 0>>

\* Debugger::serialize; order is the sequence in which the HashSet iterator
\* yields the breakpoints
debugger_serialize(d, order) ==
    LET no_bps == Cardinality(d.breakpoints)
        vm_ser == serialize(to_vm_desc(d.vm))
    IN  IF no_bps > 65535 THEN SerErr("SerializationError")
        ELSE IF ~vm_ser.ok THEN vm_ser
        ELSE [ok |-> TRUE, err |-> "",
              bytes |-> bdb_magic_out \o to_be_bytes(no_bps) \o <<0>>
                        \o words_to_bytes(order) \o <<0>> \o vm_ser.bytes]

DbgErr(e) == [ok |-> FALSE, err |-> e, dbg |-> BadDebugger]

\* Debugger::deserialize
debugger_deserialize(input, oc) ==
    LET magic == check_slice(input, 4)
        c1 == skip(input, 4)
        bp_nums == check_slice(c1, 3)
        bp_amount == extract_number(bp_nums.v)
        c2 == skip(c1, 3)
        bp_len == 2 * bp_amount.v + 1
        bp_region == check_slice(c2, bp_len)
        breakpoints == { from_be_bytes(bp_region.v[2 * i + 1], bp_region.v[2 * i + 2]) :
                            i \in 0..(bp_amount.v - 1) }
        desc == deserialize(skip(c2, bp_len))
        made == vm_new(desc.desc, oc)
    IN  IF ~magic.ok THEN DbgErr(magic.err)
        ELSE IF magic.v # bdb_magic_in THEN DbgErr("DeserializationError")
        ELSE IF ~bp_nums.ok THEN DbgErr(bp_nums.err)
        ELSE IF ~bp_amount.ok THEN DbgErr(bp_amount.err)
        ELSE IF ~bp_region.ok THEN DbgErr(bp_region.err)
        ELSE IF bp_region.v[bp_len] # 0 THEN DbgErr("DeserializationError")
        ELSE IF ~desc.ok THEN DbgErr(desc.err)
        ELSE IF made.ret.kind # "Ok" THEN DbgErr(made.ret.kind)
        ELSE [ok |-> TRUE, err |-> "",
              dbg |-> [vm |-> made.vm, breakpoints |-> breakpoints, halted |-> FALSE,
                       uart |-> NoUart, current_uart_out |-> <<>>]]

----------------------------------------------------------------------------
(* Debugger sessions: the programs, images and breakpoint lists a Debugger  *)
(* is created from.                                                         *)

\* D = inc D; A = U_OUT; *A = add, 0, D; A = U_OFL; *A = add, 0, E; A = 1; JMP
\* (emits the low byte of D with the strobes held in E, forever)
ProgUart ==
    << alu_word(TRUE, 2, R_D, R_D, FALSE, FALSE, FALSE, FALSE, FALSE),
       Data(U_OUT),
       alu_word(TRUE, 0, R_D, R_MA, TRUE, TRUE, FALSE, FALSE, FALSE),
       Data(U_OFL),
       alu_word(TRUE, 0, R_E, R_MA, TRUE, TRUE, FALSE, FALSE, FALSE),
       Data(1),
       alu_word(FALSE, 0, R_None, R_None, FALSE, FALSE, TRUE, TRUE, TRUE) >>

\* A = 5; then a word with u = 1, op = 101, which is in no row of the table
ProgBad ==
    << Data(5), alu_word(TRUE, 5, R_D, R_D, FALSE, FALSE, FALSE, FALSE, FALSE) >>

\* ProgUart with the jump back to word 0: every round emits the next byte
ProgUartInc == [ProgUart EXCEPT ![6] = Data(0)]

DbgRoms == {ProgUart, ProgS2, ProgBad}

\* ProgUart starts with D = 0x141 and E = OW, E = OW | IR or E = OW | RU;
\* ProgUartInc with D = 0x141 and E = OW
DbgDescs ==
    { [default_description EXCEPT !.rom = rom,
                                  !.regs = IF rom = ProgUart THEN <<0, 321, 1, 0, 0, 0>> ELSE @] :
        rom \in DbgRoms }
      \cup {[default_description EXCEPT !.rom = ProgUart, !.regs = <<0, 321, OW + IR, 0, 0, 0>>],
            [default_description EXCEPT !.rom = ProgUart, !.regs = <<0, 321, OW + RU, 0, 0, 0>>],
            [default_description EXCEPT !.rom = ProgUartInc, !.regs = <<0, 321, OW, 0, 0, 0>>]}

\* breakpoint lists given to Debugger::new
DbgBreakpoints == {<<>>, <<0>>, <<4, 2, 4>>, <<5>>}

DLast(op, arg, pre, r, runs, api) ==
    [op |-> op, arg |-> arg, pre |-> pre, ret |-> r.ret, passes |-> r.passes,
     runs |-> runs, api |-> api]

Made == [ret |-> Ok, passes |-> <<>>]

\* the sequences that enumerate a set without repetition
Orders(S) == { f \in [1..Cardinality(S) -> S] : \A i, j \in DOMAIN f : f[i] = f[j] => i = j }

----------------------------------------------------------------------------
(* A debugger session is created and stepped once, then it is serialized   *)
(* and the bytes are deserialized.                                          *)

NoDebugger == DbgErr("")

InitDbgSer ==
    /\ overflow_checks \in BOOLEAN
    /\ \E desc \in DbgDescs, breakpoints \in DbgBreakpoints, use_uart \in BOOLEAN :
          LET r == debugger_new(desc, breakpoints, use_uart, overflow_checks)
          IN  /\ r.ret.kind = "Ok"
              /\ dbg = r.dbg
              /\ dlast = DLast("new", <<0, 0>>, r.dbg, Made, 0, 0)
    /\ ser = [stage |-> "debugger", first |-> NoBytes, back |-> NoDebugger]
    /\ env = NoEnv
    /\ vm = IdleVm /\ last = IdleVm /\ munit = IdleUnit /\ mlast = IdleUnit
    /\ image = IdleImage /\ uart = IdleUart /\ ulast = IdleUart /\ rmap = IdleMap

SerStep ==
    /\ ser.stage = "debugger"
    /\ dlast.op = "new"
    /\ LET r == debugger_step(dbg, env, overflow_checks)
       IN  /\ dbg' = r.dbg
           /\ env' = r.env
           /\ dlast' = DLast("step", <<0, 0>>, dbg, r, 1, 0)
    /\ UNCHANGED <<overflow_checks, vm, last, munit, mlast, image, ser, uart, ulast, rmap>>

DbgSerialize ==
    /\ ser.stage = "debugger"
    /\ dlast.op = "step"
    /\ dlast.ret.kind # "panic"
    /\ \E order \in Orders(dbg.breakpoints) :
          ser' = [ser EXCEPT !.stage = "serialized", !.first = debugger_serialize(dbg, order)]
    /\ UNCHANGED <<overflow_checks, vm, env, last, munit, mlast, image, dbg, dlast, uart,
                   ulast, rmap>>

DbgDeserialize ==
    /\ ser.stage = "serialized"
    /\ ser.first.ok
    /\ ser' = [ser EXCEPT !.stage = "deserialized",
                          !.back = debugger_deserialize(ser.first.bytes, overflow_checks)]
    /\ UNCHANGED <<overflow_checks, vm, env, last, munit, mlast, image, dbg, dlast, uart,
                   ulast, rmap>>

NextDbgSer == SerStep \/ DbgSerialize \/ DbgDeserialize

SpecDbgSer == InitDbgSer /\ [][NextDbgSer]_vars

\* C11: for every debugger state, Debugger::deserialize applied to the bytes
\* of Debugger::serialize succeeds and yields a debugger with the same
\* breakpoint set and the same PC, registers, ROM and RAM.
C11_DebuggerRoundTrip ==
    /\ ser.stage # "debugger" => ser.first.ok
    /\ ser.stage = "deserialized" =>
          /\ ser.back.ok
          /\ ser.back.dbg.breakpoints = dbg.breakpoints
          /\ ser.back.dbg.vm.pc = dbg.vm.pc
          /\ RegsOf(ser.back.dbg.vm) = RegsOf(dbg.vm)
          /\ ser.back.dbg.vm.rom = dbg.vm.rom
          /\ ser.back.dbg.vm.mem.ram.ram = dbg.vm.mem.ram.ram

----------------------------------------------------------------------------
(* A debugger session driven through step, run and its other operations.    *)

MaxDbgRuns == 2
MaxDbgApi == 1

\* the values of max_iter given to run
RunIters == {0, 2, 20}

InitDbg ==
    /\ overflow_checks \in BOOLEAN
    /\ \E desc \in DbgDescs, breakpoints \in DbgBreakpoints, use_uart \in BOOLEAN :
          LET r == debugger_new(desc, breakpoints, use_uart, overflow_checks)
          IN  /\ r.ret.kind = "Ok"
              /\ dbg = r.dbg
              /\ dlast = DLast("new", <<0, 0>>, r.dbg, Made, 0, 0)
    /\ env = NoEnv
    /\ vm = IdleVm /\ last = IdleVm /\ munit = IdleUnit /\ mlast = IdleUnit
    /\ image = IdleImage /\ ser = IdleSer
    /\ uart = IdleUart /\ ulast = IdleUart /\ rmap = IdleMap

DbgAlive == dlast.ret.kind # "panic"

DbgStep ==
    /\ DbgAlive
    /\ dlast.runs < MaxDbgRuns
    /\ LET r == debugger_step(dbg, env, overflow_checks)
       IN  /\ dbg' = r.dbg
           /\ env' = r.env
           /\ dlast' = DLast("step", <<0, 0>>, dbg, r, dlast.runs + 1, dlast.api)
    /\ UNCHANGED <<overflow_checks, vm, last, munit, mlast, image, ser, uart, ulast, rmap>>

DbgRun ==
    /\ DbgAlive
    /\ dlast.runs < MaxDbgRuns
    /\ \E max_iter \in RunIters :
          LET r == debugger_run(dbg, env, max_iter, overflow_checks)
          IN  /\ dbg' = r.dbg
              /\ env' = r.env
              /\ dlast' = DLast("run", <<max_iter, 0>>, dbg, r, dlast.runs + 1, dlast.api)
    /\ UNCHANGED <<overflow_checks, vm, last, munit, mlast, image, ser, uart, ulast, rmap>>

DbgRegisterBreakpoint ==
    /\ DbgAlive
    /\ dlast.api < MaxDbgApi
    /\ \E breakpoint \in {1, 5} :
          /\ dbg' = register_breakpoint(dbg, breakpoint)
          /\ dlast' = DLast("register_breakpoint", <<breakpoint, 0>>, dbg, Made,
                            dlast.runs, dlast.api + 1)
    /\ UNCHANGED <<overflow_checks, vm, env, last, munit, mlast, image, ser, uart, ulast, rmap>>

DbgRemoveBreakpoint ==
    /\ DbgAlive
    /\ dlast.api < MaxDbgApi
    /\ \E breakpoint \in {2} :
          /\ dbg' = remove_breakpoint(dbg, breakpoint).dbg
          /\ dlast' = DLast("remove_breakpoint", <<breakpoint, 0>>, dbg, Made,
                            dlast.runs, dlast.api + 1)
    /\ UNCHANGED <<overflow_checks, vm, env, last, munit, mlast, image, ser, uart, ulast, rmap>>

DbgSetPc ==
    /\ DbgAlive
    /\ dlast.api < MaxDbgApi
    /\ \E new_value \in {0, 100} :
          /\ dbg' = debugger_set_pc(dbg, new_value)
          /\ dlast' = DLast("set_pc", <<new_value, 0>>, dbg, Made, dlast.runs, dlast.api + 1)
    /\ UNCHANGED <<overflow_checks, vm, env, last, munit, mlast, image, ser, uart, ulast, rmap>>

DbgWriteUartByte ==
    /\ DbgAlive
    /\ dlast.api < MaxDbgApi
    /\ \E byte \in {65} :
          /\ dbg' = write_uart_byte(dbg, byte)
          /\ dlast' = DLast("write_uart_byte", <<byte, 0>>, dbg, Made, dlast.runs, dlast.api + 1)
    /\ UNCHANGED <<overflow_checks, vm, env, last, munit, mlast, image, ser, uart, ulast, rmap>>

DbgGetUartOut ==
    /\ DbgAlive
    /\ dlast.api < MaxDbgApi
    /\ dbg' = get_uart_out(dbg).dbg
    /\ dlast' = DLast("get_uart_out", get_uart_out(dbg).ret, dbg, Made, dlast.runs, dlast.api + 1)
    /\ UNCHANGED <<overflow_checks, vm, env, last, munit, mlast, image, ser, uart, ulast, rmap>>

NextDbg ==
    DbgStep \/ DbgRun \/ DbgRegisterBreakpoint \/ DbgRemoveBreakpoint \/ DbgSetPc
        \/ DbgWriteUartByte \/ DbgGetUartOut

SpecDbg == InitDbg /\ [][NextDbg]_vars

\* the values the claims on step and run speak of
IsRun == dlast.op = "run"
IsStep == dlast.op = "step"
Passes == dlast.passes
MaxIter == dlast.arg[1]
LastPass == Passes[Len(Passes)]
DbgReturned == dlast.ret.kind = "Ok"

\* C12: run on a non-halted debugger tests the breakpoints only after a
\* completed cycle: it returns right after the first completed cycle whose PC
\* is a breakpoint and runs no further cycle, and a breakpoint at the PC that
\* run starts from does not keep the first cycle from running (max_iter >= 1).
C12_BreakpointsAfterCycle ==
    (IsRun /\ ~dlast.pre.halted) =>
        /\ \A i \in 1..Len(Passes) :
              (Passes[i].ret = "Ok" /\ Passes[i].pc \in dlast.pre.breakpoints)
                  => i = Len(Passes)
        /\ MaxIter >= 1 => Len(Passes) >= 1
        /\ Len(Passes) >= 1 => dbg.vm.pc = LastPass.pc
        /\ (DbgReturned /\ ~dbg.halted /\ Len(Passes) < MaxIter)
              => dbg.vm.pc \in dbg.breakpoints
        /\ dbg.breakpoints = dlast.pre.breakpoints

C12_Witness ==
    /\ IsRun /\ DbgReturned
    /\ MaxIter = 20
    /\ dlast.pre.vm.pc = 2
    /\ 2 \in dlast.pre.breakpoints
    /\ Len(Passes) = 2
    /\ dbg.vm.pc = 4

\* the bound of run and the case max_iter = 0
RunBounded ==
    /\ Len(Passes) <= MaxIter
    /\ MaxIter = 0 => (Passes = <<>> /\ dbg = dlast.pre)

\* C13 as stated: run(max_iter) always returns, after at most max_iter VM
\* cycles, for every program; run(0) runs no cycle and changes no state.
C13_RunReturnsWithinBound ==
    IsRun => (DbgReturned /\ RunBounded)

\* C13 as amended: run(max_iter) runs at most max_iter VM cycles and then
\* returns, unless a cycle ends with a failure other than Halted, on which run
\* panics; run(0) runs no cycle, changes no state and returns.
C13_RunEndsWithinBound ==
    IsRun =>
        /\ RunBounded
        /\ ~DbgReturned =>
              /\ dlast.ret.kind = "panic"
              /\ Len(Passes) >= 1
              /\ LastPass.ret \notin {"Ok", "ExecutionHaltedError"}
        /\ \A i \in 1..(Len(Passes) - 1) : Passes[i].ret = "Ok"

C13_Witness ==
    /\ IsRun /\ DbgReturned
    /\ MaxIter = 20
    /\ Len(Passes) = 20
    /\ ~dbg.halted
    /\ dbg.vm.rom = ProgUart
    /\ dbg.current_uart_out = <<66, 66, 66>>

\* what a step that runs one cycle of the machine leaves, given the result of
\* that cycle on the machine before the step
SteppedOnce(ref) ==
    /\ Len(Passes) = 1
    /\ Passes[1].ret = ref.ret.kind
    /\ dbg.vm.pc = ref.vm.pc
    /\ RegsOf(dbg.vm) = RegsOf(ref.vm)
    /\ ~dlast.pre.uart.some => dbg.vm = ref.vm
    /\ dbg.halted <=> ref.ret.kind = "ExecutionHaltedError"
    /\ ref.ret.kind = "ExecutionHaltedError" =>
          /\ dbg.vm.pc = dlast.pre.vm.pc
          /\ RegsOf(dbg.vm) = RegsOf(dlast.pre.vm)
          /\ dbg.vm.mem.ram.ram = dlast.pre.vm.mem.ram.ram

\* C14: step on a non-halted debugger runs exactly one VM cycle; when that
\* cycle reports Halted the debugger becomes halted and PC, registers and RAM
\* are as before the step.
C14_StepRunsOneCycle ==
    (IsStep /\ ~dlast.pre.halted) =>
        SteppedOnce(cycle(dlast.pre.vm, NoEnv, overflow_checks))

C14_Witness ==
    /\ IsStep
    /\ ~dlast.pre.halted
    /\ dlast.pre.uart.some
    /\ dlast.pre.vm.pc = 100
    /\ Passes = <<Pass("ExecutionHaltedError", 100)>>
    /\ dbg.halted

----------------------------------------------------------------------------
(* A RegionMap<u16, usize> built by try_from from a list of regions, then   *)
(* searched with find_region.                                               *)

MaxRegions == 3

\* positions at the edges of the key type and next to each other
Points == {0, 1, 2, 65535}

\* the Vec<Region> handed to try_from, from its bounds; the label of a region
\* is its index in the list
RegionVec(b) == [i \in DOMAIN b |-> Region(b[i][1], b[i][2], i)]

NotBuilt == [ok |-> FALSE, err |-> "", regions |-> <<>>]

InitRegion ==
    /\ \E n \in 0..MaxRegions :
          \E b \in [1..n -> Points \X Points] :
              rmap = [stage |-> "given", value |-> RegionVec(b), ret |-> NotBuilt,
                      position |-> 0, found |-> None]
    /\ env = NoEnv
    /\ overflow_checks = FALSE
    /\ vm = IdleVm /\ last = IdleVm /\ munit = IdleUnit /\ mlast = IdleUnit
    /\ image = IdleImage /\ ser = IdleSer
    /\ dbg = IdleDbg /\ dlast = IdleDbg /\ uart = IdleUart /\ ulast = IdleUart

\* RegionMap::try_from(value)
TryFrom ==
    /\ rmap.stage = "given"
    /\ rmap' = [rmap EXCEPT !.stage = "built", !.ret = region_map_try_from(rmap.value)]
    /\ UNCHANGED <<vm, env, last, overflow_checks, munit, mlast, image, ser,
                   dbg, dlast, uart, ulast>>

\* map.find_region(position) on a map that was built
FindRegion ==
    /\ rmap.stage \in {"built", "found"}
    /\ rmap.ret.ok
    /\ \E position \in Points :
          rmap' = [rmap EXCEPT !.stage = "found", !.position = position,
                               !.found = find_region(rmap.ret.regions, position)]
    /\ UNCHANGED <<vm, env, last, overflow_checks, munit, mlast, image, ser,
                   dbg, dlast, uart, ulast>>

NextRegion == TryFrom \/ FindRegion

SpecRegion == InitRegion /\ [][NextRegion]_vars

\* region r contains position p, bounds included
Contains(r, p) == r.start <= p /\ p <= r.end

\* the bounds that occur in a list; two regions with start <= end that share
\* an address share the larger of their two starts
BoundsOf(value) ==
    {value[i].start : i \in 1..Len(value)} \cup {value[i].end : i \in 1..Len(value)}

ShareAddress(value) ==
    \E i, j \in 1..Len(value) :
        /\ i # j
        /\ \E p \in BoundsOf(value) : Contains(value[i], p) /\ Contains(value[j], p)

\* the regions of the list given to try_from that contain the position searched
Holders == {i \in 1..Len(rmap.value) : Contains(rmap.value[i], rmap.position)}

\* C18: try_from succeeds iff every region has start <= end and no two regions
\* share an address; on success find_region(p) returns the label of the one
\* region that contains p, and nothing when no region contains p.
C18_RegionMapContract ==
    /\ rmap.stage # "given" =>
          (rmap.ret.ok <=>
              /\ \A i \in 1..Len(rmap.value) : rmap.value[i].start <= rmap.value[i].end
              /\ ~ShareAddress(rmap.value))
    /\ rmap.stage = "found" =>
          IF Holders = {}
          THEN rmap.found = None
          ELSE /\ Cardinality(Holders) = 1
               /\ rmap.found = Some(CHOOSE i \in Holders : TRUE)

\* three regions given out of order; the position lies in the one given first
C18_Witness ==
    /\ rmap.stage = "found"
    /\ Len(rmap.value) = 3
    /\ rmap.value[1].start > rmap.value[2].start
    /\ rmap.value[2].start > rmap.value[3].start
    /\ rmap.value[3].end > rmap.value[3].start
    /\ rmap.position = 65535
    /\ rmap.found = Some(1)

----------------------------------------------------------------------------
(* Vm::new on images with ROM-to-RAM mappings, followed by access-checked   *)
(* writes only: cycles that store to *A and set_reg on *A.                   *)

MaxNewWrites == 2

\* A = 32; *A = inc A; and two words of data
ProgMapped ==
    << Data(32),
       alu_word(TRUE, 2, R_None, R_MA, FALSE, TRUE, FALSE, FALSE, FALSE),
       4660, 65535 >>

\* rom_mappings (source_low, length, addr): none, one, two apart, one of length
\* zero, one ending at the top of RAM, and lists that Vm::new refuses: a span
\* reaching 0x10000, a span outside the ROM, overlapping and adjacent spans, a
\* span outside RAM
NewMappings ==
    { <<>>,
      <<<<0, 2, 32>>>>,
      <<<<2, 2, 32>>, <<0, 1, 40>>>>,
      <<<<1, 0, 32>>>>,
      <<<<0, 3, 65532>>>>,
      <<<<0, 4, 65532>>>>,
      <<<<3, 2, 32>>>>,
      <<<<0, 2, 32>>, <<2, 2, 33>>>>,
      <<<<0, 2, 32>>, <<2, 1, 34>>>>,
      <<<<0, 2, 65535>>>> }

\* RAM of the image: empty, or words that the copy has to replace
NewMems == {EmptyRam, [x \in {32, 33, 40, 50} |-> 9]}

NewDescs ==
    { [pc |-> 0, rom |-> ProgMapped, mem |-> m,
       callbacks |-> <<<<32, "cb1">>, <<50, "cb2">>>>,
       rom_mappings |-> maps, regs |-> <<50, 0, 0, 0, 0, 0>>, rom_blocks |-> blocks] :
        m \in NewMems, maps \in NewMappings,
        blocks \in {<<>>, <<<<60, 1>>>>, <<<<65535, 1>>>>} }

InitNew ==
    /\ overflow_checks \in BOOLEAN
    /\ \E desc \in NewDescs :
          LET r == vm_new(desc, overflow_checks)
          IN  /\ image = [desc |-> desc, ret |-> r.ret]
              /\ vm = r.vm
              /\ last = Last("new", r.vm, NoEnv, Quiet, <<0, 0>>, 0, 0)
    /\ env = NoEnv
    /\ munit = IdleUnit /\ mlast = IdleUnit /\ ser = IdleSer
    /\ dbg = IdleDbg /\ dlast = IdleDbg /\ uart = IdleUart /\ ulast = IdleUart /\ rmap = IdleMap

\* Vm::new returned a machine
NewBuilt == image.ret.kind = "Ok"

NewCycle == NewBuilt /\ Cycle

\* Vm::set_reg on A, to move to an address, and on *A, the access-checked write
NewSetReg ==
    /\ NewBuilt
    /\ Alive
    /\ last.api < MaxNewWrites
    /\ \E rv \in {<<R_A, 32>>, <<R_A, 33>>, <<R_A, 34>>, <<R_A, 40>>, <<R_A, 61>>, <<R_A, 65535>>,
                   <<R_MA, 7>>} :
          LET r == vm_set_reg(vm, env, rv[1], rv[2])
          IN  /\ vm' = r.vm
              /\ env' = r.env
              /\ last' = Last("set_reg", vm, env, Quiet, rv, last.cycles, last.api + 1)
    /\ UNCHANGED <<overflow_checks, munit, mlast, image, ser, dbg, dlast, uart, ulast, rmap>>

NextNew == NewCycle \/ NewSetReg

SpecNew == InitNew /\ [][NextNew]_vars

\* the RAM addresses of the image's mappings
MappedAddrs ==
    UNION { {image.desc.rom_mappings[k][3] + i : i \in 0..(image.desc.rom_mappings[k][2] - 1)} :
                k \in 1..Len(image.desc.rom_mappings) }

\* the last operation was an access-checked write: a cycle that stored to *A
\* or set_reg on *A
CheckedWrite ==
    \/ IsCycle /\ IsAluWord /\ Returned /\ Field(Word, 3, 3) = 2
    \/ last.op = "set_reg" /\ last.arg[1] = 2

\* C19: after Vm::new succeeds, RAM[ram_addr + i] = ROM[rom_addr + i] for every
\* mapping (rom_addr, length, ram_addr) and every i < length, and an
\* access-checked write to such an address changes no word of RAM and reaches
\* no callback.
C19_MappedSpanHoldsRomReadOnly ==
    NewBuilt =>
        /\ \A k \in 1..Len(image.desc.rom_mappings) :
              \A i \in 0..(image.desc.rom_mappings[k][2] - 1) :
                  Stored(vm, image.desc.rom_mappings[k][3] + i)
                      = image.desc.rom[image.desc.rom_mappings[k][1] + i + 1]
        /\ (CheckedWrite /\ last.pre.mem.a \in MappedAddrs) =>
              /\ vm.mem.ram.ram = last.pre.mem.ram.ram
              /\ env.log = last.penv.log

\* set_reg(*A, 7) at 33, the second word of a mapping copied over a 9
C19_Witness ==
    /\ NewBuilt
    /\ Len(image.desc.rom_mappings) = 2
    /\ image.desc.mem # EmptyRam
    /\ last.op = "set_reg" /\ last.arg = <<2, 7>>
    /\ last.pre.mem.a = 33
    /\ Stored(vm, 33) = 65535
    /\ Stored(vm, 40) = Data(32)

----------------------------------------------------------------------------
(* A Uart on its own, driven through its four entry points.  The runs start *)
(* from a Uart that has already taken a number of input bytes and output    *)
(* strobes, so that the queues are empty, nearly full or full.              *)

MaxUartOps == 3

RECURSIVE fed(_, _, _)
RECURSIVE fed_on(_, _, _)
\* the Uart after put_input was called for the bytes number lo .. hi, which
\* are 65 and 66 in turn; the calls are split in halves to keep the
\* evaluation shallow
fed(u, lo, hi) ==
    IF lo > hi THEN u
    ELSE IF lo = hi THEN put_input(u, 65 + (lo % 2))
    ELSE fed_on(fed(u, lo, (lo + hi) \div 2), ((lo + hi) \div 2) + 1, hi)
\* the second half, on the Uart that the first half left
fed_on(u, lo, hi) == IF u.in_flags >= 0 THEN fed(u, lo, hi) ELSE u

RECURSIVE strobed(_, _, _)
RECURSIVE strobed_on(_, _, _)
\* the Uart after the rounds number lo .. hi of write_reg_changed and
\* output_flags_changed(OW), with the bytes 97 and 98 in turn
strobed(u, lo, hi) ==
    IF lo > hi THEN u
    ELSE IF lo = hi THEN output_flags_changed(write_reg_changed(u, 97 + (lo % 2)), OW)
    ELSE strobed_on(strobed(u, lo, (lo + hi) \div 2), ((lo + hi) \div 2) + 1, hi)
strobed_on(u, lo, hi) == IF u.in_flags >= 0 THEN strobed(u, lo, hi) ELSE u

\* queue lengths the runs start from
Fills == {0, 254, 255}

ULast(op, arg, pre, ret, n) == [op |-> op, arg |-> arg, pre |-> pre, ret |-> ret, n |-> n]

InitUart ==
    /\ \E k_in \in Fills, k_out \in Fills :
          /\ uart = strobed(fed(uart_default, 1, k_in), 1, k_out)
          /\ ulast = ULast("default", 0, uart, None, 0)
    /\ env = NoEnv
    /\ overflow_checks = FALSE
    /\ vm = IdleVm /\ last = IdleVm /\ munit = IdleUnit /\ mlast = IdleUnit
    /\ image = IdleImage /\ ser = IdleSer
    /\ dbg = IdleDbg /\ dlast = IdleDbg /\ rmap = IdleMap

UartPutInput ==
    /\ ulast.n < MaxUartOps
    /\ \E input_byte \in {65, 66} :
          /\ uart' = put_input(uart, input_byte)
          /\ ulast' = ULast("put_input", input_byte, uart, None, ulast.n + 1)
    /\ UNCHANGED <<vm, env, last, overflow_checks, munit, mlast, image, ser, dbg, dlast, rmap>>

UartGetOutput ==
    /\ ulast.n < MaxUartOps
    /\ uart' = get_output(uart).uart
    /\ ulast' = ULast("get_output", 0, uart, get_output(uart).ret, ulast.n + 1)
    /\ UNCHANGED <<vm, env, last, overflow_checks, munit, mlast, image, ser, dbg, dlast, rmap>>

UartWriteRegChanged ==
    /\ ulast.n < MaxUartOps
    /\ \E reg_content \in {99, 256 + 100} :
          /\ uart' = write_reg_changed(uart, reg_content)
          /\ ulast' = ULast("write_reg_changed", reg_content, uart, None, ulast.n + 1)
    /\ UNCHANGED <<vm, env, last, overflow_checks, munit, mlast, image, ser, dbg, dlast, rmap>>

UartOutputFlagsChanged ==
    /\ ulast.n < MaxUartOps
    /\ \E reg_content \in {0, OW, IR, RU, OW + IR, OW + IR + RU, 8 + OW} :
          /\ uart' = output_flags_changed(uart, reg_content)
          /\ ulast' = ULast("output_flags_changed", reg_content, uart, None, ulast.n + 1)
    /\ UNCHANGED <<vm, env, last, overflow_checks, munit, mlast, image, ser, dbg, dlast, rmap>>

NextUart == UartPutInput \/ UartGetOutput \/ UartWriteRegChanged \/ UartOutputFlagsChanged

SpecUart == InitUart /\ [][NextUart]_vars

\* C20: after any sequence of put_input, get_output, write_reg_changed and
\* output_flags_changed calls, the input queue and the output queue hold at
\* most 255 bytes each.
C20_QueuesBounded ==
    /\ Len(uart.input) <= 255
    /\ Len(uart.output) <= 255

\* a byte put into a full input queue while the output queue is full as well
C20_Witness ==
    /\ ulast.op = "put_input"
    /\ Len(ulast.pre.input) = 255
    /\ Len(uart.input) = 255
    /\ uart.input[1] = ulast.arg
    /\ Len(uart.output) = 255

----------------------------------------------------------------------------
(* A Vm built by connect_uart and the Uart it shares with other threads:    *)
(* the guest program runs cycle by cycle, a producer calls put_input, a     *)
(* consumer calls get_output, and the driver stores the input register at   *)
(* U_IN with Vm::set_ram.  Every call on the Uart is made under its Mutex,  *)
(* so the calls interleave as whole calls.                                  *)

MaxGuestOps == 3

\* A = U_IN; *A = add, 0, D; *A = inc A; A = U_IFL; *A = add, 0, D; A = U_IN;
\* *A = not A: stores aimed at the input register and at the input flags
ProgClobber ==
    << Data(U_IN),
       alu_word(TRUE, 0, R_D, R_MA, TRUE, TRUE, FALSE, FALSE, FALSE),
       alu_word(TRUE, 2, R_None, R_MA, FALSE, TRUE, FALSE, FALSE, FALSE),
       Data(U_IFL),
       alu_word(TRUE, 0, R_D, R_MA, TRUE, TRUE, FALSE, FALSE, FALSE),
       Data(U_IN),
       alu_word(FALSE, 3, R_None, R_MA, FALSE, TRUE, FALSE, FALSE, FALSE) >>

\* *A = add, 0, D; A = U_OFL; *A = add, 0, E; A = U_OUT; *A = add, 0, F;
\* A = U_OFL; *A = add, 0, E: two bytes written to U_OUT, each with a strobe
ProgSend ==
    << alu_word(TRUE, 0, R_D, R_MA, TRUE, TRUE, FALSE, FALSE, FALSE),
       Data(U_OFL),
       alu_word(TRUE, 0, R_E, R_MA, TRUE, TRUE, FALSE, FALSE, FALSE),
       Data(U_OUT),
       alu_word(TRUE, 0, R_F, R_MA, TRUE, TRUE, FALSE, FALSE, FALSE),
       Data(U_OFL),
       alu_word(TRUE, 0, R_E, R_MA, TRUE, TRUE, FALSE, FALSE, FALSE) >>

\* *A = add, 0, D, eight times: with A = U_OFL every cycle is a strobe
ProgStrobe == [i \in 1..8 |-> alu_word(TRUE, 0, R_D, R_MA, TRUE, TRUE, FALSE, FALSE, FALSE)]

\* the images handed to connect_uart: (A, D, E, F, G, H) chosen for each program
GuestDescs ==
    { [default_description EXCEPT !.rom = ProgClobber, !.regs = <<0, 7, 0, 0, 0, 0>>],
      [default_description EXCEPT !.rom = ProgSend, !.regs = <<U_OUT, 321, OW, 66, 0, 0>>],
      [default_description EXCEPT !.rom = ProgStrobe, !.regs = <<U_OFL, IR, 0, 0, 0, 0>>],
      [default_description EXCEPT !.rom = ProgStrobe, !.regs = <<U_OFL, OW + IR, 0, 0, 0, 0>>] }

\* bytes the producer has put before the guest starts
GuestFills == {0, 254}

\* what the threads have seen so far: the bytes put, the bytes an IR strobe
\* latched from a queue that held a byte, for each of them the number of puts
\* made before the strobe less the bytes queued after it, the number of puts
\* made on a queue of 255 bytes, the results of get_output that were bytes,
\* and the word the driver stored last at U_IN
Seen(put, latched, latched_at, full_puts, got, stored) ==
    [put |-> put, latched |-> latched, latched_at |-> latched_at,
     full_puts |-> full_puts, got |-> got, stored |-> stored]

GLast(op, arg, pre, ret, n, seen) ==
    [op |-> op, arg |-> arg, pre |-> pre, ret |-> ret, n |-> n, seen |-> seen]

InitGuest ==
    /\ overflow_checks \in BOOLEAN
    /\ \E desc \in GuestDescs, k \in GuestFills :
          LET c == connect_uart(desc, overflow_checks)
          IN  /\ c.ret.kind = "Ok"
              /\ vm = c.vm
              /\ last = Last("new", c.vm, NoEnv, Quiet, <<0, 0>>, 0, 0)
              /\ uart = fed(c.uart, 1, k)
              /\ ulast = GLast("connect_uart", 0, c.uart, None, 0,
                               Seen([i \in 1..k |-> 65 + (i % 2)], <<>>, <<>>, 0, <<>>,
                                    ram_get(desc.mem, U_IN)))
    /\ env = NoEnv
    /\ munit = IdleUnit /\ mlast = IdleUnit /\ image = IdleImage /\ ser = IdleSer
    /\ dbg = IdleDbg /\ dlast = IdleDbg /\ rmap = IdleMap

\* the bytes the closures' strobes latched: one for each of_change call with
\* the IR bit made while the input queue held a byte
RECURSIVE latched_by(_, _)
latched_by(u, calls) ==
    IF calls = <<>> THEN <<>>
    ELSE LET after == uart_callbacks(u, <<calls[1]>>)
         IN  (IF calls[1].cb = OfChange /\ bit_and(calls[1].value, IR) # 0 /\ u.input # <<>>
              THEN <<after.read_reg>> ELSE <<>>)
             \o latched_by(after, Tail(calls))

\* for each of these strobes, the number of puts made before it, nput, less
\* the bytes it left queued
RECURSIVE latched_at_by(_, _, _)
latched_at_by(u, calls, nput) ==
    IF calls = <<>> THEN <<>>
    ELSE LET after == uart_callbacks(u, <<calls[1]>>)
         IN  (IF calls[1].cb = OfChange /\ bit_and(calls[1].value, IR) # 0 /\ u.input # <<>>
              THEN <<nput - Len(after.input)>> ELSE <<>>)
             \o latched_at_by(after, Tail(calls), nput)

\* the guest thread: Vm::cycle returned r after running the closures in calls
GuestCycled(r, calls) ==
    /\ vm' = r.vm
    /\ env' = r.env
    /\ last' = Last("cycle", vm, env, r, <<0, 0>>, last.cycles + 1, last.api)
    /\ uart' = uart_callbacks(uart, calls)
    /\ ulast' = GLast("cycle", calls, uart, None, ulast.n,
                      [ulast.seen EXCEPT
                          !.latched = @ \o latched_by(uart, calls),
                          !.latched_at = @ \o latched_at_by(uart, calls, Len(ulast.seen.put))])

GuestCycleLogged(r) == GuestCycled(r, SubSeq(r.env.log, Len(env.log) + 1, Len(r.env.log)))

GuestCycle ==
    /\ Alive
    /\ last.cycles < MaxCycles
    /\ GuestCycleLogged(cycle(vm, env, overflow_checks))
    /\ UNCHANGED <<overflow_checks, munit, mlast, image, ser, dbg, dlast, rmap>>

\* the producer thread: uart.lock().unwrap().put_input(byte); the bytes are
\* numbered 1, 2, ... in the order of the calls
ProducerPut ==
    /\ ulast.n < MaxGuestOps
    /\ \E input_byte \in {ulast.n + 1} :
          /\ uart' = put_input(uart, input_byte)
          /\ ulast' = GLast("put_input", input_byte, uart, None, ulast.n + 1,
                            [ulast.seen EXCEPT
                                !.put = Append(@, input_byte),
                                !.full_puts = IF Len(uart.input) = INPUT_BUF_LEN
                                              THEN @ + 1 ELSE @])
    /\ UNCHANGED <<vm, env, last, overflow_checks, munit, mlast, image, ser, dbg, dlast, rmap>>

\* the consumer thread: uart.lock().unwrap().get_output()
ConsumerGot(out) ==
    /\ uart' = out.uart
    /\ ulast' = GLast("get_output", 0, uart, out.ret, ulast.n + 1,
                      [ulast.seen EXCEPT
                          !.got = IF out.ret.some THEN Append(@, out.ret.v) ELSE @])

ConsumerGet ==
    /\ ulast.n < MaxGuestOps
    /\ ConsumerGot(get_output(uart))
    /\ UNCHANGED <<vm, env, last, overflow_checks, munit, mlast, image, ser, dbg, dlast, rmap>>

\* the driver: vm.set_ram(U_IN, value), with the Uart's input register or
\* any other word
DriverStore ==
    /\ Alive
    /\ ulast.n < MaxGuestOps
    /\ \E value \in {get_input(uart), 173} :
          /\ vm' = vm_set_ram(vm, U_IN, value)
          /\ last' = Last("set_ram", vm, env, Quiet, <<U_IN, value>>, last.cycles, last.api + 1)
          /\ ulast' = GLast("set_ram", value, uart, None, ulast.n + 1,
                            [ulast.seen EXCEPT !.stored = value])
    /\ UNCHANGED <<env, uart, overflow_checks, munit, mlast, image, ser, dbg, dlast, rmap>>

NextGuest == GuestCycle \/ ProducerPut \/ ConsumerGet \/ DriverStore

SpecGuest == InitGuest /\ [][NextGuest]_vars

\* C21: in a Vm built by connect_uart the word at U_IN is, after any sequence
\* of cycles, the value the driver stored there last with its raw store (the
\* word of the image before the first store); no cycle changes it.
C21_GuestCannotWriteUIn ==
    /\ Stored(vm, U_IN) = ulast.seen.stored
    /\ IsCycle => Stored(vm, U_IN) = Stored(last.pre, U_IN)

\* the guest stored to *A with A = U_IN after the driver had stored 173 there
C21_Witness ==
    /\ IsCycle /\ Returned /\ IsAluWord
    /\ Field(Word, 3, 3) = 2
    /\ last.pre.mem.a = U_IN
    /\ last.trace.output = 7
    /\ ulast.seen.stored = 173
    /\ Stored(vm, U_IN) = 173

\* the bytes of a queue, oldest first (push_front adds at index 1)
OldestFirst(q) == [i \in 1..Len(q) |-> q[Len(q) + 1 - i]]

\* the last n elements of a sequence
LastOf(s, n) == SubSeq(s, Len(s) - n + 1, Len(s))

\* C22: with a producer calling put_input and the guest issuing IR strobes
\* through the U_OFL closure, in any interleaving of the calls: the queue
\* holds the bytes put last, oldest first; every byte latched from a
\* non-empty queue is a byte put, each later in the order of the puts than
\* the one latched before it and earlier than the bytes still queued; and the
\* bytes neither latched nor queued are no more than the puts made on a queue
\* of 255 bytes.
C22_InputOrderUnderInterleaving ==
    LET put == ulast.seen.put
        latched == ulast.seen.latched
        at == ulast.seen.latched_at
    IN  /\ OldestFirst(uart.input) = LastOf(put, Len(uart.input))
        /\ Len(at) = Len(latched)
        /\ \A k \in 1..Len(latched) :
              /\ at[k] \in 1..(Len(put) - Len(uart.input))
              /\ latched[k] = put[at[k]]
              /\ k > 1 => at[k - 1] < at[k]
        /\ Len(put) - Len(latched) - Len(uart.input) <= ulast.seen.full_puts

\* 254 bytes queued, then two puts, the second on a full queue, then two
\* strobes: the second and third byte put are latched, the newest is queued
C22_Witness ==
    /\ Len(ulast.seen.put) = 256
    /\ ulast.seen.full_puts = 1
    /\ ulast.seen.latched = <<ulast.seen.put[2], ulast.seen.put[3]>>
    /\ uart.input[1] = 2
    /\ uart.read_reg = ulast.seen.put[3]

\* the closures that ran so far in the guest, in order
Calls == env.log

\* call number j is a write to U_OFL with the OW bit
IsOutStrobe(j) == Calls[j].cb = OfChange /\ bit_and(Calls[j].value, OW) # 0

\* the word the guest wrote last to U_OUT before call number j (0 if none)
WrittenBefore(j) ==
    LET outs == {i \in 1..(j - 1) : Calls[i].cb = WriteChange}
    IN  IF outs = {} THEN 0
        ELSE Calls[CHOOSE i \in outs : \A x \in outs : x <= i].value

\* the low bytes the guest sent: one for each strobe, in the order of the strobes
Sent ==
    LET strobes == {j \in 1..Len(Calls) : IsOutStrobe(j)}
    IN  [k \in 1..Cardinality(strobes) |->
            WrittenBefore(CHOOSE j \in strobes :
                              Cardinality({x \in strobes : x <= j}) = k) % 256]

IoSet(u) == bit_and(u.in_flags, IO) # 0

\* C30: a put_input that brings the input queue to 255 bytes sets IO; a
\* put_input on a queue of 255 bytes drops the oldest byte, keeps the new one,
\* leaves 255 bytes queued and leaves IO set.
C30_PutInputAtBound ==
    ulast.op = "put_input" =>
        /\ Len(ulast.pre.input) = INPUT_BUF_LEN - 1 =>
              Len(uart.input) = INPUT_BUF_LEN /\ IoSet(uart)
        /\ Len(ulast.pre.input) = INPUT_BUF_LEN =>
              /\ OldestFirst(uart.input)
                    = Append(Tail(OldestFirst(ulast.pre.input)), ulast.arg)
              /\ Len(uart.input) = INPUT_BUF_LEN
              /\ IoSet(uart)

\* a full queue was read once (IO cleared), filled again, and then overflowed
C30_Witness ==
    /\ ulast.op = "put_input"
    /\ ulast.n = 3
    /\ Len(ulast.pre.input) = INPUT_BUF_LEN
    /\ uart.read_reg # 0
    /\ uart.input[1] = ulast.arg
    /\ uart.input[INPUT_BUF_LEN] # ulast.pre.input[INPUT_BUF_LEN]
    /\ IoSet(uart)


\* the words at U_IN and U_IFL of the debugger d are the registers of its Uart
Mirrored(d) ==
    /\ Stored(d.vm, U_IN) = get_input(d.uart.v)
    /\ Stored(d.vm, U_IFL) = get_in_flags(d.uart.v)

\* the same after a call of Debugger::cycle that returned r
MirroredAfter(r) == r.ret.kind = "Ok" => Mirrored(r.dbg)

\* C28: in a debugger created with use_uart, right after every cycle that
\* completes (in step or in run) the word at U_IN is the Uart's input register
\* and the word at U_IFL is the Uart's in_flags.
C28_UartRegistersMirrored ==
    dbg.uart.some =>
        /\ ((IsStep \/ IsRun) /\ Passes # <<>> /\ LastPass.ret = "Ok") => Mirrored(dbg)
        /\ MirroredAfter(debugger_cycle(dbg, env, overflow_checks))

\* the byte 0x41 given to write_uart_byte was read by the guest's IR strobe
\* and is found at U_IN after the cycle
C28_Witness ==
    /\ dbg.uart.some
    /\ IsRun /\ Passes # <<>> /\ LastPass.ret = "Ok"
    /\ get_input(dbg.uart.v) = 65
    /\ Stored(dbg.vm, U_IN) = 65
    /\ Stored(dbg.vm, U_IFL) = get_in_flags(dbg.uart.v)
    /\ Stored(dlast.pre.vm, U_IFL) # Stored(dbg.vm, U_IFL)


----------------------------------------------------------------------------
(* The program counter at the end of the address range: machines whose ROM  *)
(* fills all 65536 addresses, started near the last one.                    *)

\* D = inc D
WordIncD == alu_word(TRUE, 2, R_D, R_D, FALSE, FALSE, FALSE, FALSE, FALSE)

\* D; JGT
WordJgtD == alu_word(FALSE, 0, R_D, R_None, TRUE, TRUE, FALSE, FALSE, TRUE)

\* the words a full ROM is filled with
FullRomWords == {Data(5), WordIncD, WordJgtD}

FullRom(w) == [i \in 1..U16 |-> w]

\* the PCs the machines start from
EdgePcs == {65534, 65535, 0}

InitPc ==
    /\ overflow_checks \in BOOLEAN
    /\ \E w \in FullRomWords, p \in EdgePcs, d \in {0, 1, 65535} :
          LET r == vm_new([default_description EXCEPT !.pc = p, !.rom = FullRom(w),
                                                      !.regs = <<3, d, 0, 0, 0, 0>>],
                          overflow_checks)
          IN  /\ r.ret.kind = "Ok"
              /\ vm = r.vm
              /\ last = Last("new", r.vm, NoEnv, Quiet, <<0, 0>>, 0, 0)
    /\ env = NoEnv
    /\ munit = IdleUnit /\ mlast = IdleUnit /\ image = IdleImage /\ ser = IdleSer
    /\ dbg = IdleDbg /\ dlast = IdleDbg
    /\ uart = IdleUart /\ ulast = IdleUart /\ rmap = IdleMap

\* Pc::inc called on the counter of the machine
PcInc ==
    /\ Alive
    /\ last.api < MaxApi
    /\ vm' = [vm EXCEPT !.pc = pc_inc(@)]
    /\ last' = Last("pc_inc", vm, env, Quiet, <<0, 0>>, last.cycles, last.api + 1)
    /\ UNCHANGED <<overflow_checks, env, munit, mlast, image, ser, dbg, dlast, uart, ulast, rmap>>

NextPc == Cycle \/ VmSetPc \/ PcInc

SpecPc == InitPc /\ [][NextPc]_vars

\* C27: PC arithmetic is modulo 2^16: a cycle that completes at PC = 0xFFFF
\* without taking a branch leaves PC = 0, and Pc::inc at 0xFFFF yields 0.
C27_PcWraps ==
    /\ vm.pc \in 0..(U16 - 1)
    /\ (IsCycle /\ Returned /\ ~last.trace.taken) =>
          /\ vm.pc = (last.pre.pc + 1) % U16
          /\ last.pre.pc = 65535 => vm.pc = 0
    /\ last.op = "pc_inc" =>
          /\ vm.pc = (last.pre.pc + 1) % U16
          /\ last.pre.pc = 65535 => vm.pc = 0

\* the word at 0xFFFF ran (D went from 0xFFFF to 0 as well) and the PC is 0;
\* the next cycle runs the word at address 0
C27_Witness ==
    /\ IsCycle /\ Returned /\ Fetched
    /\ last.pre.pc = 65535
    /\ Word = WordIncD
    /\ last.pre.mem.d = 65535 /\ vm.mem.d = 0
    /\ vm.pc = 0
    /\ cycle(vm, env, overflow_checks).vm.pc = 1


----------------------------------------------------------------------------
(* assembler.rs.  A source text is a sequence of lines; a position p in it  *)
(* stands for the byte offset at which p lines precede.  The section regexes *)
(* are anchored to whole lines, so a match of line i starts at position      *)
(* i - 1 and ends at position i.  The lines are those of sources without     *)
(* define and macro definitions.                                             *)

Line(k, v, name) == [k |-> k, v |-> v, name |-> name]

LineMacros == Line("macros", 0, "")        \* [macros]
LineText == Line("text", 0, "")            \* [text]
LineConsts(n) == Line("consts", n, "")     \* [consts n]
LineLit(v) == Line("lit", v, "")           \* A = v
LineUse(name) == Line("use", 0, name)      \* A = name
LineLabel(name) == Line("label", 0, name)  \* label name:
LineMem(v) == Line("mem", v, "")           \* M = v
LineAlu(jump) == Line("alu", 0, jump)       \* D = dec, D ; jump  (D = dec, D for "")

\* RE_MACROS, RE_TEXT, RE_CONSTS .find(&assembly[from..]): the first marker
\* line of the kind after position from, 0 when there is none
find_marker(assembly, kind, from) ==
    LET found == {i \in (from + 1)..Len(assembly) : assembly[i].k = kind}
    IN  IF found = {} THEN 0 ELSE CHOOSE i \in found : \A j \in found : i <= j

\* &assembly[from..to]
slice(assembly, from, to) == SubSeq(assembly, from + 1, to)

\* util::number_literal_to_u16 on the literal of the value v
number_literal_to_u16(v) == IF v < U16 THEN Some(v) ELSE None

\* preprocessor::preprocess: every line of macros_text must be a define, a
\* begin, a comment or empty; the code is returned with the number of the
\* last line of macros_text
preprocess(macros_text, code) ==
    IF \E i \in 1..Len(macros_text) : TRUE
    THEN [ok |-> FALSE, code |-> <<>>, mline |-> 0]
    ELSE [ok |-> TRUE, code |-> code, mline |-> 0]

NoLabels == [n \in {} |-> 0]

\* HashMap::insert
insert(map, key, value) ==
    [n \in (DOMAIN map) \cup {key} |-> IF n = key THEN value ELSE map[n]]

\* text_processor::AssemblerOutput; ok is FALSE for Err(AsmParseError), and
\* emitted lists, for each word of the ROM, the line of the code it came from
AssemblerOutput(ok, rom, label_definitions, label_uses, rom_lines, emitted) ==
    [ok |-> ok, rom |-> rom, label_definitions |-> label_definitions,
     label_uses |-> label_uses, rom_lines |-> rom_lines, emitted |-> emitted]

AsmFailed == AssemblerOutput(FALSE, <<>>, NoLabels, NoLabels, 0, <<>>)

\* the strings Jumps::parse_str knows
JumpNames == {"JLT", "JGT", "JEQ", "JLE", "JGE", "JMP", "JNE"}

\* Jumps::parse_str on the part after the semicolon; no semicolon is Jumps::None
jumps_parse_str(input) == IF input \in JumpNames THEN Some(input) ELSE None

\* Jumps::set_alu_inst: the bits it gives lt, eq and gt
jumps_set_alu_inst(jump) ==
    IF jump = "JLT" THEN [lt |-> TRUE, eq |-> FALSE, gt |-> FALSE]
    ELSE IF jump = "JEQ" THEN [lt |-> FALSE, eq |-> TRUE, gt |-> FALSE]
    ELSE IF jump = "JGT" THEN [lt |-> FALSE, eq |-> FALSE, gt |-> TRUE]
    ELSE IF jump = "JLE" THEN [lt |-> TRUE, eq |-> TRUE, gt |-> FALSE]
    ELSE IF jump = "JGE" THEN [lt |-> TRUE, eq |-> TRUE, gt |-> FALSE]
    ELSE IF jump = "JMP" THEN [lt |-> TRUE, eq |-> TRUE, gt |-> TRUE]
    ELSE IF jump = "JNE" THEN [lt |-> TRUE, eq |-> FALSE, gt |-> TRUE]
    ELSE [lt |-> FALSE, eq |-> FALSE, gt |-> FALSE]

\* the Dec arm of text_processor::assemble for the line D = dec, D with the
\* jump parsed from the line: source D, op 0b011, u set, target D
assemble_dec(jump) ==
    LET bits == jumps_set_alu_inst(jump)
    IN  alu_word(TRUE, 3, R_D, R_D, FALSE, FALSE, bits.lt, bits.eq, bits.gt)

RECURSIVE assemble_lines(_, _, _)
\* the loop of text_processor::assemble from line code_idx on
assemble_lines(code, code_idx, out) ==
    IF code_idx > Len(code) THEN out
    ELSE LET line == code[code_idx]
             at == Len(out.rom)
         IN  IF line.k = "label"
             THEN IF line.name \in DOMAIN out.label_definitions THEN AsmFailed
                  ELSE assemble_lines(code, code_idx + 1,
                           [out EXCEPT !.label_definitions = insert(@, line.name, at)])
             ELSE IF line.k = "lit"
             THEN IF ~number_literal_to_u16(line.v).some \/ line.v > 32767 THEN AsmFailed
                  ELSE assemble_lines(code, code_idx + 1,
                           [out EXCEPT !.rom = Append(@, Data(line.v)),
                                       !.emitted = Append(@, code_idx)])
             ELSE IF line.k = "use"
             THEN assemble_lines(code, code_idx + 1,
                      [out EXCEPT !.rom = Append(@, Data(0)),
                                  !.emitted = Append(@, code_idx),
                                  !.label_uses =
                                      IF line.name \in DOMAIN @
                                      THEN [@ EXCEPT ![line.name] = Append(@, at)]
                                      ELSE insert(@, line.name, <<at>>)])
             ELSE IF line.k = "alu"
             THEN IF line.name # "" /\ ~jumps_parse_str(line.name).some THEN AsmFailed
                  ELSE assemble_lines(code, code_idx + 1,
                           [out EXCEPT !.rom = Append(@, assemble_dec(line.name)),
                                       !.emitted = Append(@, code_idx)])
             ELSE \* a marker line or M = v: no target, operation or name parses
                  AsmFailed

\* text_processor::assemble
assemble(code, code_offset) ==
    LET out == assemble_lines(code, 1, AssemblerOutput(TRUE, <<>>, NoLabels, NoLabels, 0, <<>>))
        mem == Append(out.rom, Data(0))
    IN  IF ~out.ok THEN AsmFailed
        ELSE IF Len(mem) > 65535 THEN AsmFailed
        ELSE [out EXCEPT !.rom = mem,
                         !.rom_lines = IF Len(code) = 0 THEN 0 ELSE Len(code) - 1]

\* what run returns: kind is Ok, AsmParseError or panic
AsmResult(kind, desc, asm, text_start, consts_start) ==
    [kind |-> kind, desc |-> desc, label_definitions |-> asm.label_definitions,
     label_uses |-> asm.label_uses, emitted |-> asm.emitted,
     text_start |-> text_start, consts_start |-> consts_start]

AsmParseError == AsmResult("AsmParseError", default_description, AsmFailed, 0, 0)
AsmPanic == AsmResult("panic", default_description, AsmFailed, 0, 0)

RECURSIVE place_constants(_, _, _)
\* the loop of const_processor::find_and_place over the lines of the consts
\* section from line_idx on; acc holds mem, label_definitions, consts_amount
place_constants(constants, line_idx, acc) ==
    IF line_idx > Len(constants) \/ ~acc.ok THEN acc
    ELSE LET line == constants[line_idx]
         IN  IF line.k = "label"
             THEN IF line.name \in DOMAIN acc.label_definitions
                  THEN [acc EXCEPT !.ok = FALSE]
                  ELSE place_constants(constants, line_idx + 1,
                           [acc EXCEPT !.label_definitions =
                                insert(@, line.name, acc.mount_position + acc.consts_amount)])
             ELSE IF line.k = "mem"
             THEN IF ~number_literal_to_u16(line.v).some THEN [acc EXCEPT !.ok = FALSE]
                  ELSE place_constants(constants, line_idx + 1,
                           [acc EXCEPT !.mem = Append(@, line.v),
                                       !.consts_amount = @ + 1])
             ELSE [acc EXCEPT !.ok = FALSE]

\* the second pass with an address one too high
second_pass_off_by_one(mem, label_uses, label_definitions) ==
    [i \in 1..Len(mem) |->
        LET hit == {n \in DOMAIN label_uses :
                       \E k \in 1..Len(label_uses[n]) : label_uses[n][k] = i - 1}
        IN  IF hit = {} THEN mem[i]
            ELSE bit_or(mem[i], label_definitions[CHOOSE n \in hit : TRUE] + 1)]

\* the second pass of find_and_place when every used label is defined and
\* small enough: *mpos |= value as u16
second_pass(mem, label_uses, label_definitions) ==
    [i \in 1..Len(mem) |->
        LET hit == {n \in DOMAIN label_uses :
                       \E k \in 1..Len(label_uses[n]) : label_uses[n][k] = i - 1}
        IN  IF hit = {} THEN mem[i]
            ELSE bit_or(mem[i], label_definitions[CHOOSE n \in hit : TRUE])]

\* const_processor::find_and_place; the set of its possible results.  The
\* second pass walks a HashMap in an order that differs from run to run: it
\* ends at the first name it meets that is missing from label_definitions
\* (the index panics) or whose value is above 0x7fff (Err).
find_and_place(asm, constants, const_offset, mount_position, text_start, cs) ==
    LET more == 15 - (Len(asm.rom) % 16)
        padded == asm.rom \o [i \in 1..more |-> 0]
        consts_start == Len(padded)
        placed == place_constants(constants, 1,
                      [ok |-> TRUE, mem |-> padded,
                       label_definitions |-> asm.label_definitions,
                       consts_amount |-> 0, mount_position |-> mount_position])
        memlen == Len(placed.mem)
        missing == {n \in DOMAIN asm.label_uses : n \notin DOMAIN placed.label_definitions}
        large == {n \in (DOMAIN asm.label_uses) \ missing : placed.label_definitions[n] > 32767}
        done == [asm EXCEPT !.label_definitions = placed.label_definitions]
    IN  IF ~placed.ok \/ memlen > 65535 THEN {AsmParseError}
        ELSE IF missing # {} \/ large # {}
        THEN {AsmPanic : n \in missing} \cup {AsmParseError : n \in large}
        ELSE {AsmResult("Ok",
                  [default_description EXCEPT
                      !.rom = second_pass(placed.mem, asm.label_uses, placed.label_definitions),
                      !.rom_mappings = <<<<consts_start % U16,
                                           (memlen - consts_start) % U16,
                                           mount_position>>>>],
                  done, text_start, cs)}

\* run from the preprocessor on
run_sections(assembly, macros_start, macros_end, text_start, text_end, consts_start, mount) ==
    LET pre == preprocess(slice(assembly, macros_start, macros_end),
                          slice(assembly, text_start, text_end))
        assembled == assemble(pre.code, pre.mline)
    IN  IF ~pre.ok \/ ~assembled.ok THEN {AsmParseError}
        ELSE find_and_place(assembled, slice(assembly, consts_start, Len(assembly)),
                            pre.mline + assembled.rom_lines, mount,
                            text_start, consts_start)

\* assembler::run: the set of its possible results.  m, t and c are the
\* marker lines the three regexes find (0 for none)
run(assembly) ==
    LET m == find_marker(assembly, "macros", 0)
        macros_start == m
        t == find_marker(assembly, "text", macros_start)
        macros_end == IF t = 0 THEN macros_start ELSE t - 1
        text_start == IF t = 0 THEN macros_start ELSE t
        c == find_marker(assembly, "consts", text_start)
        number == IF c = 0 THEN Some(65520) ELSE number_literal_to_u16(assembly[c].v)
        text_end == IF c = 0 THEN text_start ELSE c - 1
        consts_start == IF c = 0 THEN text_start ELSE c
    IN  IF ~number.some THEN {AsmParseError}
        ELSE IF ~(macros_start <= text_start /\ text_start < consts_start)
        THEN {AsmParseError}
        ELSE run_sections(assembly, macros_start, macros_end, text_start, text_end,
                          consts_start, number.v)

----------------------------------------------------------------------------
(* An assembly session: a source is written line by line and assembled.     *)

MaxLines == 5

\* the lines a source is written from; the name b is never defined
AsmLines ==
    {LineMacros, LineText, LineConsts(16), LineConsts(32767), LineLit(5),
     LineUse("a"), LineUse("b"), LineLabel("a"), LineMem(7)}

NotRun == AsmResult("none", default_description, AsmFailed, 0, 0)

InitAsm ==
    /\ image = [source |-> <<>>, stage |-> "source", ret |-> NotRun]
    /\ overflow_checks = FALSE
    /\ env = NoEnv
    /\ vm = IdleVm /\ last = IdleVm /\ munit = IdleUnit /\ mlast = IdleUnit
    /\ ser = IdleSer /\ dbg = IdleDbg /\ dlast = IdleDbg
    /\ uart = IdleUart /\ ulast = IdleUart /\ rmap = IdleMap

AsmWriteLine ==
    /\ image.stage = "source"
    /\ Len(image.source) < MaxLines
    /\ \E line \in AsmLines : image' = [image EXCEPT !.source = Append(@, line)]
    /\ UNCHANGED <<overflow_checks, vm, env, last, munit, mlast, ser, dbg, dlast, uart, ulast, rmap>>

AsmRun ==
    /\ image.stage = "source"
    /\ \E r \in run(image.source) : image' = [image EXCEPT !.stage = "ran", !.ret = r]
    /\ UNCHANGED <<overflow_checks, vm, env, last, munit, mlast, ser, dbg, dlast, uart, ulast, rmap>>

NextAsm == AsmWriteLine \/ AsmRun

SpecAsm == InitAsm /\ [][NextAsm]_vars

\* the values the claims on the assembler speak of
Source == image.source
Ran == image.stage = "ran"
Assembled == Ran /\ image.ret.kind = "Ok"
HasMarker(kind) == \E i \in 1..Len(Source) : Source[i].k = kind
MarkerLines == {i \in 1..Len(Source) : Source[i].k \in {"macros", "text", "consts"}}
MarkerRank(k) == IF k = "macros" THEN 1 ELSE IF k = "text" THEN 2 ELSE 3

\* the markers appear in the order macros, text, consts, each at most once
MarkersInOrder ==
    \A i, j \in MarkerLines : i < j => MarkerRank(Source[i].k) < MarkerRank(Source[j].k)

\* C23: assembler::run on a source with a [text] section and no [consts N]
\* section succeeds, and the single ROM-to-RAM mapping of the image has the
\* mount point 0xFFF0.  (Stated for sources that are a [text] marker followed
\* by number lines.)
C23_TextWithoutConstsAssembles ==
    (Ran /\ Source # <<>> /\ Source[1] = LineText
         /\ \A i \in 2..Len(Source) : Source[i].k = "lit") =>
        /\ image.ret.kind = "Ok"
        /\ Len(image.ret.desc.rom_mappings) = 1
        /\ image.ret.desc.rom_mappings[1][3] = 65520

\* C24: assembler::run fails with an AsmParse error for every source without
\* a [text] marker line, also when it has a [consts N] marker, and for every
\* source whose markers are not in the order macros, text, consts.
C24_SectionsEnforced ==
    (Ran /\ (~HasMarker("text") \/ ~MarkersInOrder)) => image.ret.kind = "AsmParseError"

\* the lines of the source that the passes read as label definitions of name
LabelLines(name) ==
    {j \in (image.ret.text_start + 1)..Len(Source) :
        Source[j].k = "label" /\ Source[j].name = name}

\* the lines of the source whose words the text pass emitted, in ROM order
EmittedLine(i) == image.ret.text_start + image.ret.emitted[i]

\* the address the label defined on line j stands for: in the text, the ROM
\* index of the next emitted instruction; in the consts section, the mount
\* point plus the number of constants before the line
Resolved(j) ==
    IF j < image.ret.consts_start
    THEN Cardinality({i \in 1..Len(image.ret.emitted) : EmittedLine(i) < j})
    ELSE Source[image.ret.consts_start].v
            + Cardinality({i \in (image.ret.consts_start + 1)..(j - 1) : Source[i].k = "mem"})

\* C25: in every assembled image, the word at each recorded use of a label is
\* a Data word whose low 15 bits are the label's resolved address (the ROM
\* index of the next instruction emitted after the label line in [text], also
\* when the label is defined after its use; N plus the number of constants
\* emitted before the label in [consts N]); no image is assembled when a
\* resolved address exceeds 0x7FFF.
C25_LabelUsesResolved ==
    Assembled =>
        \A name \in DOMAIN image.ret.label_uses :
            /\ Cardinality(LabelLines(name)) = 1
            /\ \A j \in LabelLines(name) :
                  /\ Resolved(j) <= 32767
                  /\ \A k \in 1..Len(image.ret.label_uses[name]) :
                        LET word == image.ret.desc.rom[image.ret.label_uses[name][k] + 1]
                        IN  /\ word >= BIT_15
                            /\ word % BIT_15 = Resolved(j)

\* [text]; A = a; label a:; A = 5; [consts 16]: the use at ROM index 0 comes
\* before the label, and holds 1, the index of A = 5
C25_Witness ==
    /\ Assembled
    /\ Source = <<LineText, LineUse("a"), LineLabel("a"), LineLit(5), LineConsts(16)>>
    /\ image.ret.label_uses["a"] = <<0>>
    /\ image.ret.desc.rom[1] = Data(1)
    /\ image.ret.desc.rom[2] = Data(5)

\* the names used on some line and defined on none
UndefinedNames ==
    {Source[i].name : i \in {i \in 1..Len(Source) : Source[i].k = "use"}}
        \ {Source[i].name : i \in {i \in 1..Len(Source) : Source[i].k = "label"}}

\* C26: assembling a source that uses a label defined neither in [text] nor in
\* [consts] fails with an AsmParse error returned to the caller.
C26_UndefinedLabelIsAsmParseError ==
    (Ran /\ UndefinedNames # {}) => image.ret.kind = "AsmParseError"


----------------------------------------------------------------------------
(* The flags of the Uart, on the sessions of SpecUart.                       *)

IsFlagsWrite == ulast.op = "output_flags_changed"
FlagSet(u, flag) == bit_and(u.in_flags, flag) # 0

\* C31: whenever a value with the RU bit is written to the output-flags
\* register, after output_flags_changed both queues are empty, the input and
\* output byte registers are 0 and in_flags is exactly OR, whatever other
\* strobe bits the value has and whatever the Uart held before.
C31_ResetClearsUart ==
    (IsFlagsWrite /\ bit_and(ulast.arg, RU) # 0) =>
        /\ uart.input = <<>>
        /\ uart.output = <<>>
        /\ uart.read_reg = 0
        /\ uart.write_reg = 0
        /\ uart.in_flags = OR

\* OW, IR and RU written together to a Uart with bytes queued on both sides
\* and a byte in the output register
C31_Witness ==
    /\ IsFlagsWrite
    /\ ulast.arg = OW + IR + RU
    /\ Len(ulast.pre.input) = 255
    /\ Len(ulast.pre.output) = 254
    /\ ulast.pre.write_reg = 99
    /\ ulast.pre.in_flags # OR
    /\ uart = uart_default

\* C38: after any sequence of Uart operations the OR flag is set whenever the
\* output queue holds fewer than 255 bytes; in particular it is set again
\* once get_output has taken a byte from a full output queue.
C38_OutputReadyWhenRoom ==
    Len(uart.output) < OUTPUT_BUF_LEN => FlagSet(uart, OR)

\* C39: after any sequence of Uart operations DA is set if and only if the
\* input queue is not empty, and IO is set if and only if the input queue
\* holds exactly 255 bytes.
C39_InputFlagsFollowQueue ==
    /\ FlagSet(uart, DA) <=> uart.input # <<>>
    /\ FlagSet(uart, IO) <=> Len(uart.input) = INPUT_BUF_LEN

\* an IR strobe took a byte from a full input queue: IO went off, DA stays on
C39_Witness ==
    /\ IsFlagsWrite
    /\ ulast.arg = IR
    /\ Len(ulast.pre.input) = INPUT_BUF_LEN
    /\ FlagSet(ulast.pre, IO)
    /\ Len(uart.input) = INPUT_BUF_LEN - 1
    /\ ~FlagSet(uart, IO)
    /\ FlagSet(uart, DA)


\* C32: in every assembled image the constants block starts at a ROM index
\* that is a multiple of 16: the const pass pads the ROM of the text pass with
\* zero words to a multiple of 16, and the rom_addr of the mapping is that
\* padded length.
C32_ConstsStartAligned ==
    Assembled =>
        LET rom_addr == image.ret.desc.rom_mappings[1][1]
            text_len == Len(image.ret.emitted) + 1
        IN  /\ rom_addr % 16 = 0
            /\ rom_addr >= text_len
            /\ rom_addr < text_len + 16
            /\ \A i \in (text_len + 1)..rom_addr : image.ret.desc.rom[i] = 0

----------------------------------------------------------------------------
(* Sources with conditional jumps: a source is written from the markers, a  *)
(* number line and the line D = dec, D with each jump string, and assembled. *)

MaxJumpLines == 3

\* JXX is a string Jumps::parse_str does not know
JumpLines ==
    {LineText, LineConsts(16), LineLit(5), LineAlu(""), LineAlu("JXX")}
        \cup {LineAlu(jump) : jump \in JumpNames}

AsmWriteJumpLine ==
    /\ image.stage = "source"
    /\ Len(image.source) < MaxJumpLines
    /\ \E line \in JumpLines : image' = [image EXCEPT !.source = Append(@, line)]
    /\ UNCHANGED <<overflow_checks, vm, env, last, munit, mlast, ser, dbg, dlast, uart, ulast, rmap>>

NextJump == AsmWriteJumpLine \/ AsmRun

SpecJump == InitAsm /\ [][NextJump]_vars

\* the (lt, eq, gt) bits of the table of jump conditions
JumpTable(jump) ==
    IF jump = "JLT" THEN <<TRUE, FALSE, FALSE>>
    ELSE IF jump = "JEQ" THEN <<FALSE, TRUE, FALSE>>
    ELSE IF jump = "JGT" THEN <<FALSE, FALSE, TRUE>>
    ELSE IF jump = "JLE" THEN <<TRUE, TRUE, FALSE>>
    ELSE IF jump = "JGE" THEN <<FALSE, TRUE, TRUE>>
    ELSE IF jump = "JMP" THEN <<TRUE, TRUE, TRUE>>
    ELSE <<TRUE, FALSE, TRUE>>

\* ALU outputs at the edges of the signed range
JumpOutputs == {0, 1, 32767, 32768, 65535}

\* C33: for each of the seven jump strings the assembled ALU word carries the
\* (lt, eq, gt) bits of the table, so an instruction assembled with ; JGE
\* branches exactly when its output is >= 0 as a signed 16-bit value.
C33_JumpBitsFollowTable ==
    Assembled =>
        \A i \in 1..Len(image.ret.emitted) :
            LET line == Source[EmittedLine(i)]
                word == image.ret.desc.rom[i]
            IN  (line.k = "alu" /\ line.name \in JumpNames) =>
                    /\ <<get_lt(word), get_eq(word), get_gt(word)>> = JumpTable(line.name)
                    /\ line.name = "JGE" =>
                          \A output \in JumpOutputs :
                              jump_taken(word, output) <=> as_i16(output) >= 0


----------------------------------------------------------------------------
(* Vm::new applied to Vm::to_vm_desc *)

\* the words of two RAM arrays agree at every address
SameRam(a, b) == \A x \in (DOMAIN a) \cup (DOMAIN b) : ram_get(a, x) = ram_get(b, x)

\* r is an Ok result of Vm::new whose VM has the PC, registers, ROM and RAM of
\* v, no region and therefore ReadWrite at every stored or formerly protected
\* address
RebuiltLike(r, desc, v) ==
    /\ r.ret.kind = "Ok"
    /\ desc.rom_mappings = <<>>
    /\ r.vm.pc = v.pc
    /\ RegsOf(r.vm) = RegsOf(v)
    /\ r.vm.rom = v.rom
    /\ SameRam(r.vm.mem.ram.ram, v.mem.ram.ram)
    /\ r.vm.mem.ram.memory_regions = <<>>
    /\ \A x \in (DOMAIN v.mem.ram.ram) \cup {0, 16, 17, 32, 33, 256, 65535} :
          access_level(r.vm.mem.ram, x) = "ReadWrite"

\* C34: for every VM state reachable by cycles, Vm::new(vm.to_vm_desc())
\* succeeds and yields a VM with the same PC, registers, ROM and RAM contents,
\* with an empty ROM-mapping list and every RAM address ReadWrite; the data
\* mapped from ROM is already in the copied RAM.
C34_SnapshotRebuilds ==
    RebuiltLike(vm_new(to_vm_desc(vm), overflow_checks), to_vm_desc(vm), vm)

C34_Witness ==
    /\ last.op = "cycle"
    /\ last.ret.kind = "Ok"
    /\ last.cycles >= 2
    /\ access_level(vm.mem.ram, 32) = "Read"
    /\ vm.rom # <<>>
    /\ ram_get(vm.mem.ram.ram, 32) = vm.rom[1]
    /\ vm.rom[1] # 0
    /\ vm.pc # 0
    /\ RegsOf(vm) # RegsOf(last.pre)
    /\ RebuiltLike(vm_new(to_vm_desc(vm), overflow_checks), to_vm_desc(vm), vm)
    /\ ram_get(vm_new(to_vm_desc(vm), overflow_checks).vm.mem.ram.ram, 32) = vm.rom[1]


----------------------------------------------------------------------------
(* The halted flag of the Debugger *)

\* the step taken is a call of step or run
StepOrRun == dlast'.op \in {"step", "run"} /\ dlast'.runs = dlast.runs + 1

\* C35: the halted state of the debugger is absorbing: once halted is set no
\* operation clears it, and every later step and run, for any max_iter,
\* executes no cycle and changes nothing of the VM or the debugger, also after
\* set_pc has moved the PC back inside the ROM.
C35_HaltedAbsorbing ==
    [][dbg.halted =>
          /\ dbg'.halted
          /\ StepOrRun => (dbg' = dbg /\ env' = env /\ dlast'.passes = <<>>
                           /\ dlast'.ret.kind = "Ok")]_vars

C35_Witness ==
    /\ dlast.op = "run"
    /\ dlast.arg[1] = 20
    /\ dlast.pre.halted
    /\ dlast.pre.vm.pc < Len(dlast.pre.vm.rom)
    /\ dlast.passes = <<>>
    /\ dbg = dlast.pre


----------------------------------------------------------------------------
(* The addresses that rom_mappings and rom_blocks protect *)

\* the RAM addresses addr .. addr + length - 1 of the image's rom_blocks
BlockedAddrs ==
    UNION { {image.desc.rom_blocks[k][1] + i : i \in 0..(image.desc.rom_blocks[k][2] - 1)} :
                k \in 1..Len(image.desc.rom_blocks) }

\* the word an access-checked write carried
WrittenWord == IF last.op = "set_reg" THEN last.arg[2] ELSE last.trace.output

\* C36: a rom_blocks entry (addr, length) or a ROM-to-RAM mapping of that
\* length at addr makes exactly the addresses addr .. addr + length - 1
\* read-only to access-checked writes: a write to any other address, the word
\* at addr + length included, is stored, and a mapping of length 0 protects
\* no address.
C36_SpanIsExactlyReadOnly ==
    (NewBuilt /\ CheckedWrite) =>
        IF last.pre.mem.a \in MappedAddrs \cup BlockedAddrs
        THEN vm.mem.ram.ram = last.pre.mem.ram.ram
        ELSE Stored(vm, last.pre.mem.a) = WrittenWord


----------------------------------------------------------------------------
(* Spans that end at the last RAM address *)

\* the image has one span, a mapping or a rom_block, and it ends at RAM_LEN
SingleSpanToTop ==
    \/ /\ Len(image.desc.rom_mappings) = 1 /\ image.desc.rom_blocks = <<>>
       /\ image.desc.rom_mappings[1][3] + image.desc.rom_mappings[1][2] = RAM_LEN
       /\ image.desc.rom_mappings[1][1] + image.desc.rom_mappings[1][2] <= Len(image.desc.rom)
    \/ /\ Len(image.desc.rom_blocks) = 1 /\ image.desc.rom_mappings = <<>>
       /\ image.desc.rom_blocks[1][1] + image.desc.rom_blocks[1][2] = RAM_LEN

\* C37: Vm::new succeeds for an image whose single mapping or rom_block lies
\* inside RAM and ends exactly at the last RAM address (ram_addr + length =
\* 65536, ROM span inside the ROM): it returns neither OutOfBounds nor Map
\* error and does not abort on the 16-bit overflow of ram_addr + length.
C37_SpanToTopOfRamBuilds == SingleSpanToTop => image.ret.kind = "Ok"


----------------------------------------------------------------------------
(* The bytes a guest sends through the Uart of a Debugger *)

\* the closures that ran during the step taken
NewCalls == SubSeq(env'.log, Len(env.log) + 1, Len(env'.log))

RECURSIVE emitted(_, _)
\* the bytes that the writes in calls sent: for each write to U_OFL with the OW
\* bit, the low byte written last to U_OUT (reg before the first such write)
emitted(calls, reg) ==
    IF calls = <<>> THEN <<>>
    ELSE IF calls[1].cb = WriteChange THEN emitted(Tail(calls), calls[1].value % 256)
    ELSE IF calls[1].cb = OfChange /\ bit_and(calls[1].value, OW) # 0
    THEN <<reg>> \o emitted(Tail(calls), reg)
    ELSE emitted(Tail(calls), reg)

RECURSIVE emitted_kept(_, _)
\* emitted without the bytes whose strobe carried the RU bit as well; a write
\* with RU also clears the output register
emitted_kept(calls, reg) ==
    IF calls = <<>> THEN <<>>
    ELSE IF calls[1].cb = WriteChange THEN emitted_kept(Tail(calls), calls[1].value % 256)
    ELSE IF calls[1].cb = OfChange /\ bit_and(calls[1].value, RU) # 0
    THEN emitted_kept(Tail(calls), 0)
    ELSE IF calls[1].cb = OfChange /\ bit_and(calls[1].value, OW) # 0
    THEN <<reg>> \o emitted_kept(Tail(calls), reg)
    ELSE emitted_kept(Tail(calls), reg)

\* a step or run that returned, in a Debugger with a Uart
UartStepOrRun == dbg.uart.some /\ StepOrRun /\ dlast'.ret.kind = "Ok"

\* get_uart_out returns the buffer and leaves it empty
UartOutTaken ==
    dlast'.op = "get_uart_out" => (dlast'.arg = dbg.current_uart_out /\ dbg'.current_uart_out = <<>>)

\* C40 as stated: in a debugger created with use_uart, every byte the guest
\* emits with an OW strobe during the cycles of a step or run is in the
\* debugger's output buffer, in emission order, when the call returns, the
\* output queue of the Uart is empty then, and get_uart_out returns the buffer
\* and empties it.
C40_EveryStrobedByteBuffered ==
    [][/\ UartStepOrRun =>
              /\ dbg'.current_uart_out
                    = dbg.current_uart_out \o emitted(NewCalls, dbg.uart.v.write_reg)
              /\ dbg'.uart.v.output = <<>>
       /\ UartOutTaken]_vars

\* C40, amended: the same for every byte whose strobe does not carry the RU
\* bit; a byte strobed with OW | RU is discarded by the reset and never reaches
\* the buffer.
C40_StrobedByteBufferedUnlessReset ==
    [][/\ UartStepOrRun =>
              /\ dbg'.current_uart_out
                    = dbg.current_uart_out \o emitted_kept(NewCalls, dbg.uart.v.write_reg)
              /\ dbg'.uart.v.output = <<>>
       /\ UartOutTaken]_vars

\* a run of 20 cycles that sent 0x45, 0x46 and 0x47 after get_uart_out had
\* taken the bytes of the run before it
C40_Witness ==
    /\ dlast.op = "run" /\ dlast.arg[1] = 20 /\ Len(dlast.passes) = 20
    /\ dlast.runs = 2 /\ dlast.api = 1
    /\ dlast.pre.uart.some
    /\ dlast.pre.uart.v.write_reg # 0
    /\ dlast.pre.current_uart_out = <<>>
    /\ dbg.current_uart_out = <<69, 70, 71>>
    /\ dbg.uart.v.output = <<>>

====
